---- MODULE Spec2Model ----
(***************************************************************************)
(* A model of @connectedcars/http-server (src/src/http-server.ts).         *)
(*                                                                         *)
(*   Spec      the Server class: route registration, start, and the        *)
(*             request listener's walk over handlerStack.  One step is     *)
(*             the code that runs between two awaits of the listener.      *)
(*             Requests are dispatched one after the other; rq, res,       *)
(*             emitted and trace are those of the current request.         *)
(*   SpecBody  parseBodyFromRequest on one request stream: its guards,     *)
(*             its 'data' / 'error' / 'end' listeners and the promise      *)
(*             they settle.  One step is one call or one stream event.     *)
(*   SpecForm  getFormDataFromRequest (src/unnamed/part_005): calls made   *)
(*             one after the other, the fields and the file part busboy    *)
(*             hands over, the sampling of the file stream, and the reads  *)
(*             of the caller.  The TextDecoder is the module's.            *)
(*   SpecQuery the request listener's loop that builds the query object    *)
(*             from the url's search parameters, one entry per step.       *)
(*                                                                         *)
(* JavaScript values are tagged records: [t |-> "string", v |-> ...],      *)
(* [t |-> "object", v |-> <<key/value pairs>>], [t |-> "undefined"].       *)
(***************************************************************************)
EXTENDS Integers, Sequences, FiniteSets, TLC

\* ------------------------------------------------------------ bounds
\* Longest route table the registration actions build.
MaxHandlers == 2
\* Most 'data' events one request stream delivers.
MaxChunks == 2

\* ------------------------------------------------------------ values
None == "undefined"

Undefined == [t |-> "undefined", v |-> <<>>]
Str(s) == [t |-> "string", v |-> s]
Obj(kvs) == [t |-> "object", v |-> kvs]

RECURSIVE JSONmembers(_)
JSONmembers(kvs) ==
  IF kvs = <<>> THEN ""
  ELSE "\"" \o kvs[1][1] \o "\":\"" \o kvs[1][2] \o "\""
       \o (IF Len(kvs) > 1 THEN "," ELSE "") \o JSONmembers(Tail(kvs))

\* JSON.stringify of a value: a string is quoted, an object of string
\* members is serialised member by member, undefined stays undefined.
JSONstringify(val) ==
  CASE val.t = "string" -> Str("\"" \o val.v \o "\"")
    [] val.t = "object" -> Str("{" \o JSONmembers(val.v) \o "}")
    [] OTHER -> Undefined

\* ------------------------------------------------------------ inputs
\* HTTP methods of the registration helpers and of incoming requests.
Methods == {"GET", "POST", "PUT", "PATCH", "DELETE"}
RequestMethods == {"GET", "POST"}

\* Route matchers: exact strings and one RegExp, /^\/x/.
StringUrls == {"/x", "/x/"}
RegExps == {"^\\/x"}
UrlUndefined == [t |-> "undefined", v |-> ""]
Matchers == {[t |-> "string", v |-> s] : s \in StringUrls}
              \cup {[t |-> "regexp", v |-> r] : r \in RegExps}

\* req.url of incoming requests.  The http parser always sets method and
\* url on a server-side IncomingMessage, so neither is ever empty here.
RequestUrls == {"/x", "/x/", "/y?a=1", "//"}

\* new URL(req.url, baseUrl) on the request urls above: "//" has an empty
\* host and throws; otherwise the pathname is the url up to the '?'.
C18_URLparseAnything(url) == [ok |-> TRUE, pathname |-> url]
URLparse(url) ==
  CASE url = "//" -> [ok |-> FALSE, pathname |-> ""]
    [] url = "/y?a=1" -> [ok |-> TRUE, pathname |-> "/y"]
    [] OTHER -> [ok |-> TRUE, pathname |-> url]

\* RegExp.prototype.test of the modelled patterns on the modelled pathnames.
RegExpTest(re, pathname) ==
  re = "^\\/x" /\ pathname \in {"/x", "/x/"}

\* What a user handler may return as a ServerResult.
ServerResults ==
  { [statusCode |-> 0,   result |-> Str("OK"), contentType |-> None],
    [statusCode |-> 201, result |-> Obj(<< <<"id", "7">> >>), contentType |-> None],
    [statusCode |-> 200, result |-> Str("<html></html>"), contentType |-> "text/html"],
    [statusCode |-> 0,   result |-> Obj(<< <<"id", "7">> >>), contentType |-> "application/json"],
    [statusCode |-> 200, result |-> Obj(<< <<"id", "7">> >>), contentType |-> "text/plain"] }

\* What a user handler may throw: a ServerError with or without a status,
\* or any other Error.
Errors ==
  { [class |-> "ServerError", status |-> 401, message |-> "Unauthorized"],
    [class |-> "ServerError", status |-> 0,   message |-> "No status"],
    [class |-> "Error",       status |-> 0,   message |-> "boom"] }

\* The TypeError res.end() throws for a chunk that is neither a string nor
\* a Buffer.
InvalidChunkError ==
  [class |-> "TypeError", status |-> 0, message |-> "ERR_INVALID_ARG_TYPE"]

\* The TypeError new URL() throws.
InvalidUrlError ==
  [class |-> "TypeError", status |-> 0, message |-> "ERR_INVALID_URL"]

NotFoundResponse ==
  Obj(<< <<"error", "not_found">>, <<"message", "Path not found">> >>)

\* ------------------------------------------------------------ state
VARIABLES
  handlerStack,  \* Server.handlerStack: <<[handler, url, method]>>
  started,       \* start() has been called: the server accepts requests
  rq,            \* the request being dispatched: pc, method, url, pathname, idx
  res,           \* its http.ServerResponse: statusCode, headers, body, ended
  emitted,       \* events emitted on the Server for this request, in order
  trace          \* calls made for this request, in order (history)

dispVars == <<handlerStack, started, rq, res, emitted, trace>>

VARIABLES
  headers,       \* req.headers of the request being read: 'content-type'
  stream,        \* the request stream: flowing, destroyed, endEmitted, ...
  calls          \* the calls of parseBodyFromRequest on it, by call number

bodyVars == <<headers, stream, calls>>

VARIABLES
  decoder,        \* the module-level TextDecoder: "clean", or "pending" when
                  \* it holds the lead byte of an unfinished character
  form,           \* one call of getFormDataFromRequest: captured fields,
                  \* busboy, listeners, and the promise's outcome
  file,           \* the file part and its stream
  consumer        \* what the caller has read from the delivered stream
formVars == <<decoder, form, file, consumer>>

VARIABLES
  searchParams,   \* url.searchParams.entries() of one request
  query,          \* the query object built from them
  entry           \* how many entries the loop has taken
queryVars == <<searchParams, query, entry>>

VARIABLES
  gqlReq,         \* the request a GraphQL server is dispatching: pc,
                  \* content type, body slot, res.locals.file, failure
  gqlRes,         \* its response: statusCode, body, ended
  gqlEmitted      \* events emitted on the GraphQL server for it, in order
gqlVars == <<gqlReq, gqlRes, gqlEmitted>>

VARIABLES
  ipRequest,      \* the request handed to getIp: headers, ip, socket
  ipResult        \* what getIp returned for it
ipVars == <<ipRequest, ipResult>>

VARIABLES
  flights         \* the calls of the listener that are in flight, by request
flightVars == <<flights>>

vars == <<dispVars, bodyVars, formVars, queryVars, gqlVars, ipVars, flightVars>>

FreshRequest == [pc |-> "idle", method |-> "", url |-> "", pathname |-> "", idx |-> 0]
FreshResponse ==
  [statusCode |-> 0, contentType |-> None, location |-> None,
   body |-> Undefined, ended |-> 0]

\* ------------------------------------------------------------ Server
\* A translator that passes on the message of every failure.
C20_errorHandlerExposing(error) ==
  [statusCode |-> IF error.status # 0 THEN error.status ELSE 500,
   result |-> Obj(<< <<"error", "server_error">>, <<"message", error.message>> >>),
   contentType |-> None]

\* errorHandler(error): the default Error Translator.
errorHandler(error) ==
  LET status == IF error.class = "ServerError" /\ error.status # 0
                THEN error.status ELSE 500
      message == IF error.class = "ServerError"
                 THEN error.message ELSE "Something went wrong"
  IN [statusCode |-> status,
      result |-> Obj(<< <<"error", "server_error">>, <<"message", message>> >>),
      contentType |-> None]

\* addHandler(handler, url, method): push onto handlerStack.
addHandler(handler, url, method) ==
  handlerStack' = Append(handlerStack, [handler |-> handler, url |-> url, method |-> method])

UserHandler == [kind |-> "user", to |-> "", statusCode |-> 0]

\* registerRequestHandler(method, url, handler)
registerRequestHandler(method, url, handler) ==
  addHandler(handler, url, method)

\* A matcher that forgets the method.
C6_MatchIgnoringMethod(method, pathname, h) ==
  IF h.url.t = "undefined" THEN TRUE
  ELSE IF h.url.t = "regexp" /\ RegExpTest(h.url.v, pathname) THEN TRUE
  ELSE h.url.t = "string" /\ pathname = h.url.v

\* matchHandler(req, pathname, handler)
matchHandler(method, pathname, h) ==
  IF h.url.t = "undefined" THEN TRUE
  ELSE IF h.method # None /\ method # h.method THEN FALSE
  ELSE IF h.url.t = "regexp" /\ RegExpTest(h.url.v, pathname) THEN TRUE
  ELSE h.url.t = "string" /\ pathname = h.url.v

\* res.end(chunk) throws when chunk is neither a string nor a Buffer
\* (undefined means "no chunk").
EndThrows(chunk) == chunk.t \notin {"string", "undefined"}

\* A respond that sets status and header but never ends the response.
C7_RespondWithoutEnd(r, statusCode, result, contentType) ==
  [threw |-> FALSE, res |-> [r EXCEPT !.statusCode = statusCode]]

\* respond(res, statusCode, result, contentType): the response object after
\* the call, and whether res.end() threw instead of ending the response.
respond(r, statusCode, result, contentType) ==
  LET ct == IF contentType # None THEN contentType
            ELSE IF result.t = "string" THEN "text/plain"
            ELSE "application/json"
      chunk == IF contentType # None
               THEN (IF contentType = "application/json"
                     THEN (IF result.t = "string" THEN result ELSE JSONstringify(result))
                     ELSE result)
               ELSE IF result.t = "string" THEN result
               ELSE JSONstringify(result)
      threw == EndThrows(chunk)
  IN [threw |-> threw,
      res |-> IF threw
              THEN [r EXCEPT !.statusCode = statusCode, !.contentType = ct]
              ELSE [r EXCEPT !.statusCode = statusCode, !.contentType = ct,
                             !.body = chunk, !.ended = @ + 1]]

\* A walk that takes the last matching entry instead of the first.
C1_LastMatch(stack, from, method, pathname) ==
  LET S == {i \in from..Len(stack) : matchHandler(method, pathname, stack[i])}
  IN IF S = {} THEN 0 ELSE CHOOSE i \in S : \A j \in S : i >= j

\* The first entry at or after `from` that matches, in registration order
\* (the for...of loop over handlerStack); 0 when the loop runs off the end.
NextMatch(stack, from, method, pathname) ==
  LET S == {i \in from..Len(stack) : matchHandler(method, pathname, stack[i])}
  IN IF S = {} THEN 0 ELSE CHOOSE i \in S : \A j \in S : i <= j

RespondEvent(statusCode, result, contentType, threw) ==
  [ev |-> "respond", statusCode |-> statusCode, result |-> result,
   contentType |-> contentType, threw |-> threw]

\* A walk that falls off the end of the table without answering.
C5_WalkWithoutNotFound(from, r, rs, tr) ==
  LET i == NextMatch(handlerStack, from, r.method, r.pathname)
  IN IF i = 0
     THEN /\ rq' = [r EXCEPT !.pc = "done", !.idx = 0]
          /\ res' = rs
          /\ trace' = tr
     ELSE /\ rq' = [r EXCEPT !.pc = "awaiting", !.idx = i]
          /\ res' = IF handlerStack[i].handler.kind = "redirect"
                    THEN [rs EXCEPT !.location = handlerStack[i].handler.to]
                    ELSE rs
          /\ trace' = Append(tr, [ev |-> "invoke", idx |-> i])

\* The listener from entry `from` of the walk up to its next await or its
\* end: call the next matching handler (a redirect handler sets Location
\* before it returns), or respond 404 after the loop.
ContinueWalk(from, r, rs, tr) ==
  LET i == NextMatch(handlerStack, from, r.method, r.pathname)
  IN IF i = 0
     THEN LET out == respond(rs, 404, NotFoundResponse, None)
          IN /\ rq' = [r EXCEPT !.pc = IF out.threw THEN "rejected" ELSE "done", !.idx = 0]
             /\ res' = out.res
             /\ trace' = Append(tr, RespondEvent(404, NotFoundResponse, None, out.threw))
     ELSE /\ rq' = [r EXCEPT !.pc = "awaiting", !.idx = i]
          /\ res' = IF handlerStack[i].handler.kind = "redirect"
                    THEN [rs EXCEPT !.location = handlerStack[i].handler.to]
                    ELSE rs
          /\ trace' = Append(tr, [ev |-> "invoke", idx |-> i])

\* A catch branch that responds without emitting the event.
C4_CatchWithoutEmit(e, rs, tr) ==
  LET errorInfo == errorHandler(e)
      out == respond(rs, errorInfo.statusCode, errorInfo.result, errorInfo.contentType)
  IN /\ emitted' = emitted
     /\ res' = out.res
     /\ rq' = [rq EXCEPT !.pc = IF out.threw THEN "rejected" ELSE "done"]
     /\ trace' = tr \o << [ev |-> "errorHandler", error |-> e, info |-> errorInfo],
                          RespondEvent(errorInfo.statusCode, errorInfo.result,
                                       errorInfo.contentType, out.threw) >>

\* The catch branch: translate, emit client-request-failed, respond.
CatchBranch(e, rs, tr) ==
  LET errorInfo == errorHandler(e)
      event == [name |-> "client-request-failed", status |-> errorInfo.statusCode,
                errorResponse |-> errorInfo.result, stack |-> e]
      out == respond(rs, errorInfo.statusCode, errorInfo.result, errorInfo.contentType)
  IN /\ emitted' = Append(emitted, event)
     /\ res' = out.res
     /\ rq' = [rq EXCEPT !.pc = IF out.threw THEN "rejected" ELSE "done"]
     /\ trace' = tr \o << [ev |-> "errorHandler", error |-> e, info |-> errorInfo],
                          [ev |-> "emit", name |-> "client-request-failed"],
                          RespondEvent(errorInfo.statusCode, errorInfo.result,
                                       errorInfo.contentType, out.threw) >>

\* ------------------------------------------------------------ actions
CanRegister == Len(handlerStack) < MaxHandlers

get(pathname) ==
  /\ CanRegister
  /\ registerRequestHandler("GET", pathname, UserHandler)
  /\ UNCHANGED <<started, rq, res, emitted, trace>>
  /\ UNCHANGED <<bodyVars, formVars, queryVars, gqlVars, ipVars, flightVars>>

post(pathname) ==
  /\ CanRegister
  /\ registerRequestHandler("POST", pathname, UserHandler)
  /\ UNCHANGED <<started, rq, res, emitted, trace>>
  /\ UNCHANGED <<bodyVars, formVars, queryVars, gqlVars, ipVars, flightVars>>

patch(pathname) ==
  /\ CanRegister
  /\ registerRequestHandler("PATCH", pathname, UserHandler)
  /\ UNCHANGED <<started, rq, res, emitted, trace>>
  /\ UNCHANGED <<bodyVars, formVars, queryVars, gqlVars, ipVars, flightVars>>

put(pathname) ==
  /\ CanRegister
  /\ registerRequestHandler("PUT", pathname, UserHandler)
  /\ UNCHANGED <<started, rq, res, emitted, trace>>
  /\ UNCHANGED <<bodyVars, formVars, queryVars, gqlVars, ipVars, flightVars>>

delete(pathname) ==
  /\ CanRegister
  /\ registerRequestHandler("DELETE", pathname, UserHandler)
  /\ UNCHANGED <<started, rq, res, emitted, trace>>
  /\ UNCHANGED <<bodyVars, formVars, queryVars, gqlVars, ipVars, flightVars>>

\* use(handler): middleware for every path and method.
useHandler ==
  /\ CanRegister
  /\ addHandler(UserHandler, UrlUndefined, None)
  /\ UNCHANGED <<started, rq, res, emitted, trace>>
  /\ UNCHANGED <<bodyVars, formVars, queryVars, gqlVars, ipVars, flightVars>>

\* use(url, middleware): throws when the middleware is missing.
useUrl(url, hasMiddleware) ==
  /\ CanRegister
  /\ IF hasMiddleware
     THEN addHandler(UserHandler, url, None)
     ELSE UNCHANGED handlerStack
  /\ UNCHANGED <<started, rq, res, emitted, trace>>
  /\ UNCHANGED <<bodyVars, formVars, queryVars, gqlVars, ipVars, flightVars>>

\* The statusCode arguments of redirect: 0 stands for none given.
RedirectStatusArgs == {0, 302}
\* statusCode = 301, the default of the parameter.
DefaultStatus(statusCode) == IF statusCode = 0 THEN 301 ELSE statusCode

\* A redirect without the check of from against to.
C19_RedirectToItself(from, to, statusCode) ==
  /\ CanRegister
  /\ registerRequestHandler("GET", [t |-> "string", v |-> from],
                            [kind |-> "redirect", to |-> to,
                             statusCode |-> DefaultStatus(statusCode)])
  /\ UNCHANGED <<started, rq, res, emitted, trace>>
  /\ UNCHANGED <<bodyVars, formVars, queryVars, gqlVars, ipVars, flightVars>>

\* redirect(from, to, statusCode = 301): throws when from = to.
redirect(from, to, statusCode) ==
  /\ CanRegister
  /\ IF from = to
     THEN UNCHANGED handlerStack
     ELSE registerRequestHandler("GET", [t |-> "string", v |-> from],
                                 [kind |-> "redirect", to |-> to,
                                  statusCode |-> DefaultStatus(statusCode)])
  /\ UNCHANGED <<started, rq, res, emitted, trace>>
  /\ UNCHANGED <<bodyVars, formVars, queryVars, gqlVars, ipVars, flightVars>>

\* start(): the server listens.
start ==
  /\ ~started
  /\ started' = TRUE
  /\ UNCHANGED <<handlerStack, rq, res, emitted, trace>>
  /\ UNCHANGED <<bodyVars, formVars, queryVars, gqlVars, ipVars, flightVars>>

\* A request arrives: the listener runs up to its first await.
Receive(method, url) ==
  /\ started
  /\ rq.pc \in {"idle", "done"}
  /\ LET parsedUrl == URLparse(url)
         r == [FreshRequest EXCEPT !.method = method, !.url = url,
                                   !.pathname = parsedUrl.pathname]
     IN IF method # "" /\ url # ""
        THEN IF ~parsedUrl.ok
             THEN LET out == respond(FreshResponse, 404, NotFoundResponse, None)
                  IN /\ emitted' = << [name |-> "invalid-url", url |-> url,
                                       error |-> InvalidUrlError] >>
                     /\ res' = out.res
                     /\ rq' = [r EXCEPT !.pc = "done"]
                     /\ trace' = << [ev |-> "emit", name |-> "invalid-url"],
                                    RespondEvent(404, NotFoundResponse, None, out.threw) >>
             ELSE /\ emitted' = <<>>
                  /\ ContinueWalk(1, r, FreshResponse, <<>>)
        ELSE LET out == respond(FreshResponse, 404, NotFoundResponse, None)
             IN /\ emitted' = <<>>
                /\ res' = out.res
                /\ rq' = [r EXCEPT !.pc = "done"]
                /\ trace' = << RespondEvent(404, NotFoundResponse, None, out.threw) >>
  /\ UNCHANGED <<handlerStack, started>>
  /\ UNCHANGED <<bodyVars, formVars, queryVars, gqlVars, ipVars, flightVars>>

Awaited == handlerStack[rq.idx].handler

\* A listener that treats "returned nothing" as the end of the walk.
C3_NothingEndsWalk ==
  /\ rq.pc = "awaiting"
  /\ Awaited.kind = "user"
  /\ ContinueWalk(Len(handlerStack) + 1, rq, res,
                  Append(trace, [ev |-> "returned", idx |-> rq.idx, kind |-> "nothing"]))
  /\ UNCHANGED <<handlerStack, started, emitted>>
  /\ UNCHANGED <<bodyVars, formVars, queryVars, gqlVars, ipVars, flightVars>>

\* The awaited handler resolves with undefined: go on with the walk.
HandlerReturnsNothing ==
  /\ rq.pc = "awaiting"
  /\ Awaited.kind = "user"
  /\ ContinueWalk(rq.idx + 1, rq, res,
                  Append(trace, [ev |-> "returned", idx |-> rq.idx, kind |-> "nothing"]))
  /\ UNCHANGED <<handlerStack, started, emitted>>
  /\ UNCHANGED <<bodyVars, formVars, queryVars, gqlVars, ipVars, flightVars>>

\* A slip of `||`: the status code is passed on as it is.
C2_StatusAsIs(handlerResult) == handlerResult.statusCode

\* handlerResult.statusCode || 200
StatusOrDefault(handlerResult) ==
  IF handlerResult.statusCode # 0 THEN handlerResult.statusCode ELSE 200

\* What the handler of a redirect entry returns.
RedirectResult(h) ==
  [statusCode |-> h.statusCode, result |-> Str("OK"), contentType |-> None]

\* The awaited handler resolves with a ServerResult: respond with it.  The
\* respond call is inside the try block, so a throw of res.end() lands in
\* the catch branch.
HandlerReturnsResult(handlerResult) ==
  /\ rq.pc = "awaiting"
  /\ IF Awaited.kind = "redirect"
     THEN handlerResult = RedirectResult(Awaited)
     ELSE handlerResult \in ServerResults
  /\ LET statusCode == StatusOrDefault(handlerResult)
         out == respond(res, statusCode, handlerResult.result, handlerResult.contentType)
         tr == trace \o << [ev |-> "returned", idx |-> rq.idx, kind |-> "result",
                            handlerResult |-> handlerResult],
                           RespondEvent(statusCode, handlerResult.result,
                                        handlerResult.contentType, out.threw) >>
     IN IF out.threw
        THEN CatchBranch(InvalidChunkError, out.res, tr)
        ELSE /\ res' = out.res
             /\ rq' = [rq EXCEPT !.pc = "done"]
             /\ trace' = tr
             /\ UNCHANGED emitted
  /\ UNCHANGED <<handlerStack, started>>
  /\ UNCHANGED <<bodyVars, formVars, queryVars, gqlVars, ipVars, flightVars>>

\* The awaited handler rejects.
HandlerThrows(e) ==
  /\ rq.pc = "awaiting"
  /\ Awaited.kind = "user"
  /\ CatchBranch(e, res,
                 Append(trace, [ev |-> "returned", idx |-> rq.idx, kind |-> "threw",
                                error |-> e]))
  /\ UNCHANGED <<handlerStack, started>>
  /\ UNCHANGED <<bodyVars, formVars, queryVars, gqlVars, ipVars, flightVars>>

RedirectStatusCodes == {301, 302}
AllResults == ServerResults \cup
  {[statusCode |-> c, result |-> Str("OK"), contentType |-> None] : c \in RedirectStatusCodes}

\* ------------------------------------------------------------ body reader
\* Bytes of a request body: '{', '}' and 0xFF, which is no valid UTF-8.
Bytes == {123, 125, 255}
ChunkLengths == {1, 2}
\* The chunks a 'data' event may carry (never empty: the stream does not
\* emit empty chunks).
Chunks == UNION {[1..n -> Bytes] : n \in ChunkLengths}

\* The maxBodySize arguments of the modelled calls, in bytes.
MaxBodySizes == {1, 3}
Kinds == {"JSON", "string", "buffer"}
Calls == {1, 2}

ContentTypes ==
  {None, "application/json; charset=utf-8", "Application/JSON",
   "multipart/form-data", "multipart/form-data; boundary=x"}

\* contentType.split(';')[0].trim().toLowerCase() on the headers above.
MediaType(ct) ==
  CASE ct = "application/json; charset=utf-8" -> "application/json"
    [] ct = "Application/JSON" -> "application/json"
    [] ct = "multipart/form-data; boundary=x" -> "multipart/form-data"
    [] OTHER -> ct

\* contentTypeDoesNotMatchBody(contentType, kind)
contentTypeDoesNotMatchBody(ct, kind) ==
  LET contentTypeTrimmed == MediaType(ct)
  IN \/ kind = "JSON" /\ contentTypeTrimmed # "application/json"
     \/ kind = "string" /\ contentTypeTrimmed # "text/plain"
     \/ kind = "buffer" /\ contentTypeTrimmed # "application/octet-stream"

RECURSIVE BufferConcat(_)
\* Buffer.concat(body)
BufferConcat(body) ==
  IF body = <<>> THEN <<>> ELSE Head(body) \o BufferConcat(Tail(body))

\* buffer.toString('utf8') on the modelled bytes: an ASCII byte is its own
\* code point, 0xFF decodes to U+FFFD.
Utf8Decode(bytes) ==
  [i \in 1..Len(bytes) |-> IF bytes[i] < 128 THEN bytes[i] ELSE 65533]

\* JSON.parse on texts over '{', '}' and U+FFFD: "{}" is the only JSON
\* text among them, every other one is a SyntaxError.
JSONparse(text) ==
  IF text = <<123, 125>> THEN [ok |-> TRUE, v |-> <<>>] ELSE [ok |-> FALSE, v |-> <<>>]

NoOutcome == [t |-> "none", type |-> "", v |-> <<>>, status |-> 0]
Resolved(type, v) == [t |-> "resolved", type |-> type, v |-> v, status |-> 0]
Rejected(type, status) == [t |-> "rejected", type |-> type, v |-> <<>>, status |-> status]

AlreadyParsed == Rejected("ServerError", 400)
UnsupportedMediaType == Rejected("ServerError", 415)
EntityTooLarge == Rejected("ServerError", 413)

FreshStream ==
  [flowing |-> FALSE, destroyed |-> FALSE, endEmitted |-> FALSE,
   errorEmitted |-> FALSE, delivered |-> 0]

IdleCall ==
  [pc |-> "idle", kind |-> "", maxBodySize |-> 0, attached |-> FALSE,
   body |-> <<>>, bodySize |-> 0, outcome |-> NoOutcome, settledBy |-> "",
   warned |-> FALSE, afterSettled |-> FALSE]

\* req.readable
Readable(st) == ~st.destroyed /\ ~st.errorEmitted /\ ~st.endEmitted

\* A promise that can be settled again.
C37_SettleAgain(call, outcome, by) ==
  [call EXCEPT !.pc = outcome.t, !.outcome = outcome, !.settledBy = by]

\* A promise that lets its last resolve or reject win.
C10_SettleLastWins(call, outcome, by) ==
  [call EXCEPT !.pc = outcome.t, !.outcome = outcome, !.settledBy = by]

\* resolve(...) / reject(...) of the call's promise: only the first one of
\* a promise has an effect.
Settle(call, outcome, by) ==
  IF call.pc = "pending"
  THEN [call EXCEPT !.pc = outcome.t, !.outcome = outcome, !.settledBy = by]
  ELSE call

\* A limit that is already exceeded when it is reached.
C8_ExceedsAtLimit(bodySize, maxBodySize) == bodySize >= maxBodySize

\* bodySize > maxBodySize
Exceeds(bodySize, maxBodySize) == bodySize > maxBodySize

\* The 'data' listener of one call.
OnData(call, chunk) ==
  LET pushed == [call EXCEPT !.body = Append(@, chunk), !.bodySize = @ + Len(chunk)]
  IN IF Exceeds(pushed.bodySize, pushed.maxBodySize)
     THEN Settle(pushed, EntityTooLarge, "data")
     ELSE pushed

\* The 'error' listener of one call.
OnError(call) == Settle(call, Rejected("StreamError", 0), "error")

\* The 'end' listener of one call.  Neither resolve of the string and buffer
\* branches returns, so the JSON line runs for every kind; what it throws is
\* caught and passed to reject.
OnEnd(call) ==
  LET bytes == BufferConcat(call.body)
      text == Utf8Decode(bytes)
      first == IF call.kind = "string" THEN Settle(call, Resolved("string", text), "end")
               ELSE IF call.kind = "buffer" THEN Settle(call, Resolved("buffer", bytes), "end")
               ELSE call
  IN IF Len(call.body) = 0 THEN Settle(first, Resolved("object", <<>>), "end")
     ELSE IF JSONparse(text).ok THEN Settle(first, Resolved("object", JSONparse(text).v), "end")
     ELSE Settle(first, Rejected("SyntaxError", 0), "end")

\* Guards that refuse every multipart media type, whatever its parameters.
C38_GuardsOnMediaType(st, ct) ==
  IF st.destroyed \/ st.errorEmitted \/ st.endEmitted
  THEN Rejected("ServerError", 400)
  ELSE IF ct \in {"multipart/form-data", "multipart/form-data; boundary=x"}
  THEN Rejected("ServerError", 415)
  ELSE NoOutcome

\* A second call that does not look at req.readable.
C9_GuardsWithoutReadable(st, ct) ==
  IF ct = "multipart/form-data" THEN UnsupportedMediaType ELSE NoOutcome

\* The guards of parseBodyFromRequest: the failure it throws before it
\* attaches a listener, NoOutcome when it goes on.
Guards(st, ct) ==
  IF ~Readable(st) THEN AlreadyParsed
  ELSE IF ct = "multipart/form-data" THEN UnsupportedMediaType
  ELSE NoOutcome

\* parseBodyFromRequest(req, maxBodySize, {kind}), call number c on this
\* request: up to the return of the promise.
parseBodyFromRequest(c, maxBodySize, kind) ==
  /\ calls[c].pc = "idle"
  /\ \A d \in Calls : d < c => calls[d].pc # "idle"
  /\ LET thrown == Guards(stream, headers.contentType)
         call == [IdleCall EXCEPT !.kind = kind, !.maxBodySize = maxBodySize,
                    !.afterSettled = \A d \in Calls : d < c => calls[d].pc # "pending"]
     IN IF thrown # NoOutcome
        THEN /\ calls' = [calls EXCEPT ![c] =
                            [call EXCEPT !.pc = "rejected", !.outcome = thrown,
                                         !.settledBy = "guard"]]
             /\ UNCHANGED stream
        ELSE /\ calls' = [calls EXCEPT ![c] =
                            [call EXCEPT !.pc = "pending", !.attached = TRUE,
                               !.warned = /\ headers.contentType # None
                                          /\ contentTypeDoesNotMatchBody(headers.contentType, kind)]]
             /\ stream' = [stream EXCEPT !.flowing = TRUE]
  /\ UNCHANGED <<headers, dispVars, formVars, queryVars, gqlVars, ipVars, flightVars>>

\* The stream emits 'data': every attached listener runs, in the order of
\* attachment; req.destroy() of one of them stops the stream afterwards.
DataEvent(chunk) ==
  /\ stream.flowing /\ Readable(stream)
  /\ stream.delivered < MaxChunks
  /\ calls' = [c \in Calls |-> IF calls[c].attached THEN OnData(calls[c], chunk) ELSE calls[c]]
  /\ stream' = [stream EXCEPT
                  !.delivered = @ + 1,
                  !.destroyed = \E c \in Calls :
                     /\ calls[c].attached
                     /\ Exceeds(calls[c].bodySize + Len(chunk), calls[c].maxBodySize)]
  /\ UNCHANGED <<headers, dispVars, formVars, queryVars, gqlVars, ipVars, flightVars>>

\* The stream emits 'end'.
EndEvent ==
  /\ stream.flowing /\ Readable(stream)
  /\ calls' = [c \in Calls |-> IF calls[c].attached THEN OnEnd(calls[c]) ELSE calls[c]]
  /\ stream' = [stream EXCEPT !.endEmitted = TRUE]
  /\ UNCHANGED <<headers, dispVars, formVars, queryVars, gqlVars, ipVars, flightVars>>

\* The stream fails (the connection is reset): 'error' is emitted and every
\* attached listener destroys the stream and rejects.
ErrorEvent ==
  /\ Readable(stream)
  /\ calls' = [c \in Calls |-> IF calls[c].attached THEN OnError(calls[c]) ELSE calls[c]]
  /\ stream' = [stream EXCEPT !.errorEmitted = TRUE, !.destroyed = TRUE]
  /\ UNCHANGED <<headers, dispVars, formVars, queryVars, gqlVars, ipVars, flightVars>>

\* The Server after its constructor, no request stream being read.
\* ------------------------------------------------------------ multipart parser
\* getFormDataFromRequest (src/unnamed/part_005).  One step is one event of
\* busboy or of the file stream, or one read by the caller.  A file's bytes
\* are the chunks busboy pushes: `sent' holds their sizes, and a buffer is
\* the sequence of the indexes of the chunks it holds, so that a byte
\* sequence is the same as another exactly when the index sequences are.

\* Most chunks busboy pushes into one file stream.
MaxFileChunks == 3
\* Sizes of those chunks, in bytes.
FileChunkSizes == {40, 60}
\* The sample threshold of validateFileStream and of the 'end' listener.
SampleSize == 100

Null == [t |-> "null", v |-> ""]
Arr(list) == [t |-> "array", v |-> list]
\* !value, for a value that is null or a string.
Falsy(val) == val.t = "null" \/ (val.t = "string" /\ val.v = "")

SupportedFileType ==
  {"csv", "jpeg", "jpg", "gif", "pdf", "png", "txt", "xls", "xlsx"}
TEXT_TYPES == {"text/html", "text/plain", "text/csv"}

\* What fileType.filetypeinfo finds at the start of a file: nothing, one
\* supported type, a container signature shared by a supported and an
\* unsupported type, or one unsupported type.
Guess(typename, mime) == [typename |-> typename, mime |-> mime]
GuessedFileTypes ==
  { <<>>,
    << Guess("png", "image/png") >>,
    << Guess("zip", "application/zip"),
       Guess("xlsx", "application/vnd.openxmlformats-officedocument.spreadsheetml.sheet") >>,
    << Guess("exe", "application/x-msdownload") >> }

\* fileInfo.mimeType of the file part, and mimeType.split('/')[1].
MimeTypes == {"text/plain", "image/png"}
MimeSubtype(mimeType) ==
  CASE mimeType = "text/plain" -> "plain"
    [] mimeType = "text/csv" -> "csv"
    [] mimeType = "text/html" -> "html"
    [] mimeType = "image/png" -> "png"
    [] OTHER -> ""

\* The sample as UTF-8: "valid"; "invalid" (a byte that starts no
\* character); "cut" (valid, then the lead byte of a character whose
\* continuation is missing); "cont" (a continuation byte, then valid).
TextKinds == {"valid", "invalid", "cut", "cont"}

\* The name of the file part's form field ("" when the part has none), and
\* the part's declared filename.
PartNames == {"", "file", "upload"}
PartFilenames == {"a.png"}

\* The form fields: busboy hands over every field, named or not.
FormFields ==
  { <<"operationName", "v">>, <<"query", "">>, <<"query", "v">>,
    <<"variables", "v">>, <<"other", "v">> }

Pending == [t |-> "pending"]
FreshForm ==
  [active |-> TRUE, operationName |-> Null, query |-> Null,
   variables |-> Null, bb |-> "parsing", listening |-> TRUE,
   piped |-> TRUE, readableListeners |-> 0, cleanups |-> 0,
   outcome |-> Pending]
IdleForm ==
  [FreshForm EXCEPT !.active = FALSE, !.listening = FALSE, !.piped = FALSE]
NoFile ==
  [state |-> "none", fieldName |-> "", filename |-> "", mimeType |-> "",
   guessed |-> <<>>, text |-> "valid", sent |-> <<>>,
   sourceEnded |-> FALSE, buffer |-> <<>>, onData |-> FALSE,
   onEnd |-> FALSE, paused |-> FALSE, queue |-> <<>>,
   endEmitted |-> FALSE, classified |-> 0, captured |-> <<>>]
NoConsumer ==
  [source |-> "none", replay |-> <<>>, drained |-> <<>>, ended |-> FALSE]

FilenameIsEmpty == "Filename is empty"
FieldsBeforeFile == "Form fields must go before file"
FileTooSmall == "File is too small or file type is not supported"
FileTypeNotSupported == "File type not supported"
DecodeError == "The encoded data was not valid for encoding utf-8"
BusboyError == "busboy error"

\* buffer.length
RECURSIVE BufferLength(_, _)
BufferLength(sent, buffer) ==
  IF buffer = <<>> THEN 0
  ELSE sent[Head(buffer)] + BufferLength(sent, Tail(buffer))

\* decoder.decode(bytes, { stream: true }) of the fatal decoder: the
\* outcomes of one call from decoder state d.  A lead byte left at the end
\* of the input is kept for the next call and does not throw; a kept lead
\* byte makes the next input valid only if it starts with the
\* continuation; an input of no bytes changes nothing.  What the decoder
\* keeps after it has thrown is not specified, so both states are outcomes.
toString(d, text) ==
  LET ok == \/ d = "clean" /\ text \in {"valid", "cut"}
            \/ d = "pending" /\ text = "cont"
  IN IF text = "empty"
     THEN {[threw |-> FALSE, decoder |-> d]}
     ELSE IF ok
     THEN {[threw |-> FALSE,
            decoder |-> IF text = "cut" THEN "pending" ELSE "clean"]}
     ELSE {[threw |-> TRUE, decoder |-> n] : n \in {"clean", "pending"}}

\* The buffered sample as text; a sample of no bytes is "empty".
SampleText(f) == IF f.buffer = <<>> THEN "empty" ELSE f.text

\* fileType.filetypeinfo(chunk): the signatures are at the start of the
\* file and shorter than any chunk, so any non-empty buffer shows them.
filetypeinfo(f) == IF f.buffer = <<>> THEN <<>> ELSE f.guessed

IsSupported(guess) == guess.typename \in SupportedFileType
C15_getSupportedFileTypeUnfiltered(chunk) ==
  IF chunk = <<>> THEN Null ELSE Arr(chunk)
getSupportedFileType(chunk) ==
  IF chunk = <<>> THEN Null
  ELSE IF Len(SelectSeq(chunk, IsSupported)) > 0
       THEN Arr(SelectSeq(chunk, IsSupported))
       ELSE Null

\* The parser's state as one record, for the listeners below.
FormState == [decoder |-> decoder, form |-> form, file |-> file,
              consumer |-> consumer]

\* resolve and reject of the promise: only the first call settles it.
C11_RejectLastWins(S, error) ==
  [S EXCEPT !.form.outcome = [t |-> "rejected", error |-> error]]
reject(S, error) ==
  IF S.form.outcome = Pending
  THEN [S EXCEPT !.form.outcome = [t |-> "rejected", error |-> error]]
  ELSE S
resolve(S, value) ==
  IF S.form.outcome = Pending
  THEN [S EXCEPT !.form.outcome = [t |-> "resolved", value |-> value],
                 !.consumer = [source |-> value.fileStream,
                               replay |-> IF value.fileStream = "Readable.from"
                                          THEN << S.file.buffer >> ELSE <<>>,
                               drained |-> <<>>, ended |-> FALSE]]
  ELSE S

cleanup(S) ==
  [S EXCEPT !.form.piped = FALSE,
            !.form.readableListeners = @ + 1,
            !.form.listening = FALSE,
            !.form.cleanups = @ + 1]

\* The failure of a file part that must not be sampled, "" when it may.
C13_RefusalWithoutQueryCheck(fieldName, q) ==
  IF fieldName = "" THEN FilenameIsEmpty ELSE ""
Refusal(fieldName, q) ==
  IF fieldName = "" THEN FilenameIsEmpty
  ELSE IF Falsy(q) THEN FieldsBeforeFile
  ELSE ""

\* The failure of a file no type was accepted for.
C14_UnsupportedErrorSwapped(ended) ==
  IF ended THEN FileTypeNotSupported ELSE FileTooSmall
UnsupportedError(ended) ==
  IF ended THEN FileTooSmall ELSE FileTypeNotSupported

\* The declared filename first, the field's name for a field named "file".
C22_OriginalFileNameDeclared(fieldName, filename) ==
  IF fieldName # "file" THEN filename ELSE fieldName
\* fileName !== 'file' ? fileName : fileInfo.filename, where fileName is
\* the name of the form field.
OriginalFileName(fieldName, filename) ==
  IF fieldName # "file" THEN fieldName ELSE filename

\* The else branch of handleFileStreamData: the data listener is removed,
\* the stream is paused, the sample is put back in front of what the
\* stream holds, and the promise is resolved.
C12_AcceptWithoutUnshift(S, ended, fileTypeInfo) ==
  resolve([S EXCEPT !.file.onData = FALSE, !.file.paused = TRUE],
          [fileStream |-> IF ended THEN "Readable.from" ELSE "fileStream",
           fileTypeInfo |-> fileTypeInfo.v,
           originalFileName |-> OriginalFileName(S.file.fieldName,
                                                 S.file.filename),
           query |-> S.form.query,
           operationName |-> S.form.operationName,
           variables |-> S.form.variables])
Accept(S, ended, fileTypeInfo) ==
  resolve([S EXCEPT !.file.onData = FALSE, !.file.paused = TRUE,
                    !.file.queue = IF ended THEN @
                                   ELSE << S.file.buffer >> \o @],
          [fileStream |-> IF ended THEN "Readable.from" ELSE "fileStream",
           fileTypeInfo |-> fileTypeInfo.v,
           originalFileName |-> OriginalFileName(S.file.fieldName,
                                                 S.file.filename),
           query |-> S.form.query,
           operationName |-> S.form.operationName,
           variables |-> S.form.variables])

\* handleFileStreamData(ended): the states it can leave.  A failed decode
\* rejects and falls through to the else branch, whose resolve is then
\* without effect.
handleFileStreamData(S, ended) ==
  LET detected == getSupportedFileType(filetypeinfo(S.file))
      fallback == S.file.mimeType \in TEXT_TYPES /\ detected.t = "null"
      fileTypeInfo ==
        IF fallback
        THEN Arr(<< [mime |-> S.file.mimeType,
                     typename |-> MimeSubtype(S.file.mimeType)] >>)
        ELSE detected
      decoded == IF fallback THEN toString(S.decoder, SampleText(S.file))
                 ELSE {[threw |-> FALSE, decoder |-> S.decoder]}
      S0 == [S EXCEPT !.file.classified = @ + 1]
  IN { LET S1 == [S0 EXCEPT !.decoder = d.decoder]
           S2 == IF d.threw THEN reject(S1, DecodeError) ELSE S1
       IN IF fileTypeInfo.t = "null"
          THEN reject(cleanup(S2), UnsupportedError(ended))
          ELSE Accept(S2, ended, fileTypeInfo)
       : d \in decoded }

\* A data listener that classifies at every chunk.
C30_validateEveryChunk(S, chunk) ==
  handleFileStreamData([S EXCEPT !.file.buffer = Append(@, chunk)], FALSE)

\* validateFileStream(chunk), the stream's 'data' listener.
validateFileStream(S, chunk) ==
  LET S1 == [S EXCEPT !.file.buffer = Append(@, chunk)]
  IN IF BufferLength(S1.file.sent, S1.file.buffer) >= SampleSize
     THEN handleFileStreamData(S1, FALSE)
     ELSE {S1}

\* The stream's 'end' listener.
OnFileEnd(S) ==
  LET S1 == [S EXCEPT !.file.endEmitted = TRUE]
  IN IF S.file.onEnd /\ BufferLength(S.file.sent, S.file.buffer) < SampleSize
     THEN handleFileStreamData(S1, TRUE)
     ELSE {S1}

\* Busboy parses the parts one after the other: it reaches the next part
\* once it has pushed the whole of the file part, or skipped it.
FilePartParsed ==
  file.state \in {"none", "destroyed"} \/ file.sourceEnded

Becomes(S) ==
  /\ decoder' = S.decoder
  /\ form' = S.form
  /\ file' = S.file
  /\ consumer' = S.consumer

\* A call of getFormDataFromRequest, once the call before it has settled;
\* the decoder is the module's and stays as the calls before left it.
getFormDataFromRequest ==
  /\ ~form.active \/ form.outcome # Pending
  /\ form' = FreshForm
  /\ file' = NoFile
  /\ consumer' = NoConsumer
  /\ UNCHANGED <<decoder, dispVars, bodyVars, queryVars, gqlVars, ipVars, flightVars>>

\* bb.on('field')
FieldEvent(fieldName, fieldValue) ==
  /\ form.active /\ form.listening /\ form.bb = "parsing"
  /\ FilePartParsed
  /\ form' = CASE fieldName = "operationName" ->
                    [form EXCEPT !.operationName = Str(fieldValue)]
               [] fieldName = "query" ->
                    [form EXCEPT !.query = Str(fieldValue)]
               [] fieldName = "variables" ->
                    [form EXCEPT !.variables = Str(fieldValue)]
               [] OTHER -> form
  /\ UNCHANGED <<decoder, file, consumer, dispVars, bodyVars, queryVars, gqlVars, ipVars, flightVars>>

\* bb.on('file')
FileEvent(fieldName, filename, mimeType, guessed, text) ==
  /\ form.active /\ form.listening /\ form.bb = "parsing"
  /\ file.state = "none"
  /\ LET part == [NoFile EXCEPT !.fieldName = fieldName,
                                !.filename = filename,
                                !.mimeType = mimeType,
                                !.guessed = guessed, !.text = text,
                                !.captured = << form.operationName, form.query,
                                                form.variables >>]
         refusal == Refusal(fieldName, form.query)
     IN IF refusal # ""
        THEN Becomes(reject([FormState EXCEPT
                               !.file = [part EXCEPT !.state = "destroyed"]],
                            refusal))
        ELSE Becomes([FormState EXCEPT
                        !.file = [part EXCEPT !.state = "open",
                                              !.onData = TRUE,
                                              !.onEnd = TRUE]])
  /\ UNCHANGED <<dispVars, bodyVars, queryVars, gqlVars, ipVars, flightVars>>

\* Busboy pushes the next chunk of the file part.  A flowing stream hands
\* it to the data listener at once; a paused one keeps it.
FileData(size) ==
  /\ form.active /\ form.bb = "parsing"
  /\ file.state = "open" /\ ~file.sourceEnded
  /\ Len(file.sent) < MaxFileChunks
  /\ LET chunk == Len(file.sent) + 1
         S == [FormState EXCEPT !.file.sent = Append(@, size)]
     IN IF file.paused
        THEN Becomes([S EXCEPT !.file.queue = Append(@, << chunk >>)])
        ELSE \E T \in (IF file.onData THEN validateFileStream(S, chunk)
                       ELSE {S}) : Becomes(T)
  /\ UNCHANGED <<dispVars, bodyVars, queryVars, gqlVars, ipVars, flightVars>>

\* Busboy ends the file part: push(null).  The stream emits 'end' on a
\* later tick, so busboy goes on with the parts that follow in the chunk
\* it is parsing before the 'end' listener runs.
FileEnd ==
  /\ form.active /\ form.bb = "parsing"
  /\ file.state = "open" /\ ~file.sourceEnded
  /\ Becomes([FormState EXCEPT !.file.sourceEnded = TRUE])
  /\ UNCHANGED <<dispVars, bodyVars, queryVars, gqlVars, ipVars, flightVars>>

\* A flowing file stream that busboy has ended emits 'end'; a paused one
\* emits it when the caller has read it to its end (ConsumerEnd).
FileEndEmitted ==
  /\ form.active
  /\ file.state = "open" /\ file.sourceEnded /\ ~file.endEmitted
  /\ ~file.paused
  /\ \E T \in OnFileEnd(FormState) : Becomes(T)
  /\ UNCHANGED <<dispVars, bodyVars, queryVars, gqlVars, ipVars, flightVars>>

\* The caller reads the next buffer of the stream it was given.
ConsumerRead ==
  /\ form.active /\ form.outcome # Pending /\ form.outcome.t = "resolved"
  /\ ~consumer.ended
  /\ \/ /\ consumer.source = "fileStream"
        /\ file.state = "open" /\ file.queue # <<>>
        /\ consumer' = [consumer EXCEPT !.drained = @ \o Head(file.queue)]
        /\ file' = [file EXCEPT !.queue = Tail(@)]
     \/ /\ consumer.source = "Readable.from"
        /\ consumer.replay # <<>>
        /\ consumer' = [consumer EXCEPT !.drained = @ \o Head(consumer.replay),
                                        !.replay = Tail(@)]
        /\ UNCHANGED file
  /\ UNCHANGED <<decoder, form, dispVars, bodyVars, queryVars, gqlVars, ipVars, flightVars>>

\* The stream the caller was given ends: the replay when it is empty, the
\* file stream when busboy has ended it and nothing is left in it.
ConsumerEnd ==
  /\ form.active /\ form.outcome # Pending /\ form.outcome.t = "resolved"
  /\ ~consumer.ended
  /\ \/ /\ consumer.source = "fileStream"
        /\ file.state = "open" /\ file.sourceEnded /\ file.queue = <<>>
        /\ \E T \in OnFileEnd([FormState EXCEPT !.consumer.ended = TRUE]) :
             Becomes(T)
     \/ /\ consumer.source = "Readable.from"
        /\ consumer.replay = <<>>
        /\ consumer' = [consumer EXCEPT !.ended = TRUE]
        /\ UNCHANGED <<decoder, form, file>>
  /\ UNCHANGED <<dispVars, bodyVars, queryVars, gqlVars, ipVars, flightVars>>

\* bb.on('error'); busboy destroys the file stream it has not ended.
BusboyErrorEvent ==
  /\ form.active /\ form.bb = "parsing"
  /\ LET S0 == [FormState EXCEPT
                  !.form.bb = "errored",
                  !.file.state = IF @ = "open" /\ ~file.endEmitted
                                 THEN "destroyed" ELSE @]
     IN Becomes(IF form.listening THEN reject(cleanup(S0), BusboyError)
                ELSE S0)
  /\ UNCHANGED <<dispVars, bodyVars, queryVars, gqlVars, ipVars, flightVars>>

\* bb.on('finish'), once every part is parsed and the file stream, if any,
\* has ended.
FinishEvent ==
  /\ form.active /\ form.bb = "parsing"
  /\ file.state \in {"none", "destroyed"} \/ file.endEmitted
  /\ Becomes(IF form.listening
             THEN cleanup([FormState EXCEPT !.form.bb = "finished"])
             ELSE [FormState EXCEPT !.form.bb = "finished"])
  /\ UNCHANGED <<dispVars, bodyVars, queryVars, gqlVars, ipVars, flightVars>>

\* ------------------------------------------------------------ query decoding
\* The loop of the request listener over url.searchParams.entries()
\* (http-server.ts:88-102).  One step is one iteration.

\* Most key/value pairs in one query string.
MaxParams == 3
QueryKeys == {"a", "constructor"}
QueryValues == {"", "1", "2"}
ParamLists ==
  UNION {[1..n -> QueryKeys \X QueryValues] : n \in 0..MaxParams}

\* query starts as {}: it has no own property, and inherits those of
\* Object.prototype.
NoProperty == [t |-> "undefined", v |-> ""]
ObjectPrototype == [t |-> "function", v |-> "Object"]
EmptyQuery == [k \in QueryKeys |-> NoProperty]
QueryGet(q, key) ==
  IF q[key].t # "undefined" THEN q[key]
  ELSE IF key = "constructor" THEN ObjectPrototype
  ELSE NoProperty

\* if (value), for a string, an array, a function or undefined.
Truthy(val) ==
  CASE val.t = "undefined" -> FALSE
    [] val.t = "string" -> val.v # ""
    [] OTHER -> TRUE

\* The body of the loop for one entry.
QueryEntry(q, key, value) ==
  LET queryValue == QueryGet(q, key)
  IN IF Truthy(queryValue)
     THEN IF queryValue.t = "array"
          THEN [q EXCEPT ![key] = Arr(Append(queryValue.v, Str(value)))]
          ELSE [q EXCEPT ![key] = Arr(<< queryValue, Str(value) >>)]
     ELSE [q EXCEPT ![key] = Str(value)]

DecodeEntry ==
  /\ entry < Len(searchParams)
  /\ query' = QueryEntry(query, searchParams[entry + 1][1],
                         searchParams[entry + 1][2])
  /\ entry' = entry + 1
  /\ UNCHANGED <<searchParams, dispVars, bodyVars, formVars, gqlVars, ipVars, flightVars>>

\* ------------------------------------------------------------ GraphQLServer
\* A GraphQL server whose table holds the multipart middleware followed by
\* one route, both registered bound to the server, dispatching one request
\* at a time through the listener of Server.

\* The object {errors: [{type, message}]}.
ErrorsBody(type, message) ==
  [t |-> "errors", v |-> << <<"type", type>>, <<"message", message>> >>]

NoError == [class |-> "none", status |-> 0, message |-> "", innerError |-> None]

\* What the route may throw: a JwtVerifyError with or without an inner
\* error (innerError holds the inner error's message), a ServerError, or
\* any other Error.
GraphQLErrors ==
  { [class |-> "JwtVerifyError", status |-> 0, message |-> "jwt failed",
     innerError |-> "jwt expired"],
    [class |-> "JwtVerifyError", status |-> 0, message |-> "jwt failed",
     innerError |-> None],
    [class |-> "ServerError", status |-> 403, message |-> "Forbidden",
     innerError |-> None],
    [class |-> "Error", status |-> 0, message |-> "boom", innerError |-> None] }

\* The TypeError of reading a property of undefined.
ThisUndefinedError ==
  [class |-> "TypeError", status |-> 0,
   message |-> "Cannot read properties of undefined", innerError |-> None]

\* What the route may return.
GraphQLResults ==
  { [statusCode |-> 200, result |-> Obj(<< <<"data", "ok">> >>)],
    [statusCode |-> 0,   result |-> Obj(<< <<"data", "ok">> >>)] }

\* content-type headers of requests to the GraphQL server.
GraphQLContentTypes == ContentTypes \cup {"multipart/mixed; boundary=x"}

\* req.headers['content-type']?.includes('multipart')
IncludesMultipart(contentType) ==
  contentType \in {"multipart/form-data", "multipart/form-data; boundary=x",
                   "multipart/mixed; boundary=x"}

\* What getFormDataFromRequest resolves with, as far as the middleware
\* uses it: the three GraphQL parts, and the rest (fileInfo).
ParsedForms ==
  { [operationName |-> op, query |-> q, variables |-> v,
     fileInfo |-> [originalFileName |-> "a.png"]]
    : op \in {Null, Str("Q")}, q \in {Str("{ a }")}, v \in {Null, Str("{}")} }

\* What getFormDataFromRequest rejects with.
ParseFailures ==
  { [class |-> "Error", status |-> 0, message |-> m, innerError |-> None]
    : m \in {FilenameIsEmpty, FieldsBeforeFile, FileTooSmall,
             FileTypeNotSupported, DecodeError, BusboyError} }

\* A property that was never assigned.
Unset == [t |-> "undefined", v |-> ""]

NoBody == [set |-> FALSE, operationName |-> Unset, query |-> Unset, variables |-> Unset]
NoFileInfo == [originalFileName |-> None]

FreshGraphQLRequest ==
  [pc |-> "idle", contentType |-> None, body |-> NoBody, file |-> NoFileInfo,
   thrown |-> NoError, translator |-> "none"]
\* `socket` is the connection the response would be written to.
FreshGraphQLResponse ==
  [statusCode |-> 0, body |-> Undefined, ended |-> 0, socket |-> "open"]

GraphQLIdle ==
  /\ gqlReq = FreshGraphQLRequest
  /\ gqlRes = FreshGraphQLResponse
  /\ gqlEmitted = <<>>

\* handleJwtVerifyError(error, req): the event it emits and what it returns.
handleJwtVerifyError(error) ==
  LET errorMessage == IF error.innerError # None
                      THEN "Failed with: " \o error.innerError
                      ELSE "Failed with: " \o error.message
  IN [threw |-> FALSE, error |-> NoError,
      events |-> << [name |-> "graphql-jwt-error", errorMessage |-> errorMessage,
                     error |-> error] >>,
      errorInfo |-> [statusCode |-> 401,
                     result |-> ErrorsBody("auth-error", errorMessage)]]

\* handleUnhandledGraphQLError(error, req)
handleUnhandledGraphQLError(error) ==
  [threw |-> FALSE, error |-> NoError,
   events |-> << [name |-> "graphql-error", errorMessage |-> "Unhandled error",
                  error |-> error] >>,
   errorInfo |-> [statusCode |-> 500,
                  result |-> ErrorsBody("unknown-type", "Something went wrong")]]

\* graphQLErrorHandler(error, req, res), called on the server.
graphQLErrorHandler(error) ==
  IF error.class = "JwtVerifyError" THEN handleJwtVerifyError(error)
  ELSE IF error.class = "ServerError"
  THEN [threw |-> FALSE, error |-> NoError, events |-> <<>>,
        errorInfo |-> [statusCode |-> errorHandler(error).statusCode,
                       result |-> errorHandler(error).result]]
  ELSE handleUnhandledGraphQLError(error)

\* GraphQLServer.errorHandler(error, req, res) called with the given `this`:
\* it reads this.graphQLErrorHandler first.
GraphQLServerErrorHandler(this, error) ==
  IF this = None
  THEN [threw |-> TRUE, error |-> ThisUndefinedError, events |-> <<>>,
        errorInfo |-> [statusCode |-> 0, result |-> Undefined]]
  ELSE graphQLErrorHandler(error)

\* resolveErrorHandler(): the method is read off the server and handed back
\* as a plain function, so the call in the catch branch has no `this`.
resolveErrorHandler == [method |-> "errorHandler", this |-> None]

\* respond(res, statusCode, result) for an object result: JSON.stringify of
\* these bodies never fails.
GraphQLRespond(r, statusCode, result) ==
  [r EXCEPT !.statusCode = statusCode, !.body = result, !.ended = @ + 1]

\* The listener takes a request: the walk starts at the middleware.
GraphQLReceive(contentType) ==
  /\ gqlReq.pc \in {"idle", "done", "rejected"}
  /\ gqlRes.socket = "open"
  /\ gqlReq' = [FreshGraphQLRequest EXCEPT !.pc = "middleware",
                                           !.contentType = contentType]
  /\ gqlRes' = FreshGraphQLResponse
  /\ gqlEmitted' = <<>>
  /\ UNCHANGED <<dispVars, bodyVars, formVars, queryVars, ipVars, flightVars>>

\* graphQLMiddleware(req, res) up to its await, or to its end for a request
\* that is not multipart (it returns undefined and the walk goes on).
graphQLMiddleware ==
  /\ gqlReq.pc = "middleware"
  /\ gqlReq' = IF IncludesMultipart(gqlReq.contentType)
               THEN [gqlReq EXCEPT !.pc = "parsing", !.body.set = TRUE]
               ELSE [gqlReq EXCEPT !.pc = "route"]
  /\ UNCHANGED <<gqlRes, gqlEmitted, dispVars, bodyVars, formVars, queryVars, ipVars, flightVars>>

\* getFormDataFromRequest resolved: the middleware fills the body slot and
\* res.locals.file, returns undefined, and the walk goes on.
ParseResolved(parsed) ==
  /\ gqlReq.pc = "parsing"
  /\ gqlReq' = [gqlReq EXCEPT !.pc = "route",
                              !.body.operationName = parsed.operationName,
                              !.body.query = parsed.query,
                              !.body.variables = parsed.variables,
                              !.file = parsed.fileInfo]
  /\ UNCHANGED <<gqlRes, gqlEmitted, dispVars, bodyVars, formVars, queryVars, ipVars, flightVars>>

\* A middleware whose catch block throws the failure on.
C25_MiddlewareRethrows(error) ==
  [threw |-> TRUE, error |-> error, events |-> <<>>,
   result |-> [statusCode |-> 0, result |-> Undefined]]

\* The catch block of graphQLMiddleware.
MiddlewareCatch(error) ==
  [threw |-> FALSE, error |-> NoError,
   events |-> << [name |-> "graphql-error",
                  errorMessage |-> "Failed to parse form data from request",
                  error |-> error] >>,
   result |-> [statusCode |-> 400,
               result |-> ErrorsBody("multipart-parse-error", "Invalid multipart form")]]

\* handlerResult.statusCode || 200
GraphQLStatusOrDefault(statusCode) == IF statusCode = 0 THEN 200 ELSE statusCode

\* The catch branch of the listener: translate with the resolved
\* translator, emit client-request-failed, respond.  A translator that
\* throws leaves the listener: nothing is emitted and nothing is sent.
\* The listener is an async function whose promise nobody holds, so the
\* throw becomes an unhandled rejection: the process either exits, which
\* closes every socket, or (with an 'unhandledRejection' listener or
\* --unhandled-rejections=warn) goes on with the socket left open; no line
\* of the listener destroys the socket.
GraphQLCatchBranch(e) ==
  LET call == GraphQLServerErrorHandler(resolveErrorHandler.this, e)
      errorInfo == call.errorInfo
      event == [name |-> "client-request-failed", status |-> errorInfo.statusCode,
                errorResponse |-> errorInfo.result, stack |-> e]
  IN IF call.threw
     THEN /\ gqlReq' = [gqlReq EXCEPT !.pc = "rejected", !.thrown = e,
                                      !.translator = "threw"]
          /\ \E socket \in {"open", "destroyed"} :
               gqlRes' = [gqlRes EXCEPT !.socket = socket]
          /\ UNCHANGED gqlEmitted
     ELSE /\ gqlReq' = [gqlReq EXCEPT !.pc = "done", !.thrown = e,
                                      !.translator = "returned"]
          /\ gqlEmitted' = gqlEmitted \o call.events \o << event >>
          /\ gqlRes' = GraphQLRespond(gqlRes, errorInfo.statusCode, errorInfo.result)

\* getFormDataFromRequest rejected: the middleware's catch block runs and
\* the listener answers with what the middleware returned.
ParseRejected(error) ==
  /\ gqlReq.pc = "parsing"
  /\ LET caught == MiddlewareCatch(error)
     IN IF caught.threw
        THEN GraphQLCatchBranch(caught.error)
        ELSE /\ gqlReq' = [gqlReq EXCEPT !.pc = "done"]
             /\ gqlEmitted' = gqlEmitted \o caught.events
             /\ gqlRes' = GraphQLRespond(gqlRes,
                                         GraphQLStatusOrDefault(caught.result.statusCode),
                                         caught.result.result)
  /\ UNCHANGED <<dispVars, bodyVars, formVars, queryVars, ipVars, flightVars>>

\* The route returns a result and the listener responds with it.
RouteReturns(handlerResult) ==
  /\ gqlReq.pc = "route"
  /\ gqlReq' = [gqlReq EXCEPT !.pc = "done"]
  /\ gqlRes' = GraphQLRespond(gqlRes, GraphQLStatusOrDefault(handlerResult.statusCode),
                              handlerResult.result)
  /\ UNCHANGED <<gqlEmitted, dispVars, bodyVars, formVars, queryVars, ipVars, flightVars>>

\* The route throws and the listener's catch branch runs.
RouteThrows(e) ==
  /\ gqlReq.pc = "route"
  /\ GraphQLCatchBranch(e)
  /\ UNCHANGED <<dispVars, bodyVars, formVars, queryVars, ipVars, flightVars>>

\* Most errors in one GraphQL response body.
MaxErrors == 3

\* The errors of a response body: whether isClientsideError holds for the
\* error, and the status an overriding handleStatusCode maps it to (0 when
\* the server does not override it).
FormattedErrors ==
  { [clientside |-> TRUE, mapped |-> 0], [clientside |-> FALSE, mapped |-> 0],
    [clientside |-> FALSE, mapped |-> 401], [clientside |-> FALSE, mapped |-> 403],
    [clientside |-> FALSE, mapped |-> 404] }
ErrorLists == UNION {[1..n -> FormattedErrors] : n \in 0..MaxErrors}

\* handleStatusCode(error, req, res); res.statusCode is 200 on a response
\* nobody has set a status on.
handleStatusCode(error, r) ==
  IF error.mapped # 0 THEN error.mapped
  ELSE IF error.clientside THEN 400
  ELSE IF r.statusCode = 0 THEN 200 ELSE r.statusCode

\* The first loop of statusCodeForErrors from responseStatusCode on: the
\* status of the last error that is 400 or above.
RECURSIVE LastErrorStatus(_, _, _)
LastErrorStatus(errors, r, responseStatusCode) ==
  IF errors = <<>> THEN responseStatusCode
  ELSE LET errorStatusCode == handleStatusCode(Head(errors), r)
       IN LastErrorStatus(Tail(errors), r,
                          IF errorStatusCode >= 400 THEN errorStatusCode
                          ELSE responseStatusCode)

\* The second loop: the first 401 or 403, 0 when there is none.
RECURSIVE FirstAuthStatus(_, _)
FirstAuthStatus(errors, r) ==
  IF errors = <<>> THEN 0
  ELSE IF handleStatusCode(Head(errors), r) \in {401, 403}
  THEN handleStatusCode(Head(errors), r)
  ELSE FirstAuthStatus(Tail(errors), r)

\* A status that is the one of the last error, whatever it is.
C40_statusCodeOfLastError(errors, r) ==
  IF errors = <<>> THEN 500 ELSE handleStatusCode(errors[Len(errors)], r)

\* statusCodeForErrors(errors, req, res)
statusCodeForErrors(errors, r) ==
  IF FirstAuthStatus(errors, r) # 0 THEN FirstAuthStatus(errors, r)
  ELSE LastErrorStatus(errors, r, 500)

\* A response body {errors: [...]}.
GraphQLErrorsBody(errors) == [t |-> "graphql", v |-> errors]

\* graphQLPostHandler answers a request whose execution result has
\* errors, and the listener responds with what it returned.
PostHandlerReturnsErrors(errors) ==
  /\ gqlReq.pc = "route"
  /\ gqlReq' = [gqlReq EXCEPT !.pc = "done"]
  /\ gqlRes' = GraphQLRespond(gqlRes,
                              GraphQLStatusOrDefault(statusCodeForErrors(errors, gqlRes)),
                              GraphQLErrorsBody(errors))
  /\ UNCHANGED <<gqlEmitted, dispVars, bodyVars, formVars, queryVars, ipVars, flightVars>>

\* ------------------------------------------------------------ getIp
\* A string is the sequence of its characters, so that split and trim are
\* computed rather than assumed.
Chars == {"1", "2", ",", " "}

\* Longest header string.
MaxHeaderLen == 5

Strings(n) == UNION {[1..k -> Chars] : k \in 0..n}

NoHeader == [t |-> "undefined", v |-> <<>>]
StrHeader(s) == [t |-> "string", v |-> s]
ArrHeader(a) == [t |-> "array", v |-> a]

\* Values of x-original-forwarded-for: absent, any string up to the
\* bound, or a list of one to three addresses.
ForwardedHeaders ==
  {NoHeader} \cup {StrHeader(s) : s \in Strings(MaxHeaderLen)}
    \cup {ArrHeader(a) : a \in { << <<"1">> >>, << <<"1">>, <<"2">> >>,
                                  << <<"2">>, <<"1">>, <<"2">> >> }}

\* Values of x-forwarded-for.
FallbackHeaders ==
  { NoHeader, StrHeader(<<>>), StrHeader(<<"2">>),
    StrHeader(<<"2", ",", " ", "1">>), StrHeader(<<"1", ",", "2", ",", "1">>),
    ArrHeader(<< <<"2">>, <<"1">> >>) }

\* request.ip of a framework request, and the socket's remoteAddress.
FrameworkIps == {NoHeader, StrHeader(<<"9">>)}
RemoteAddresses == {NoHeader, StrHeader(<<"7">>)}

IpRequests ==
  [xOriginalForwardedFor : ForwardedHeaders, xForwardedFor : FallbackHeaders,
   ip : FrameworkIps, remoteAddress : RemoteAddresses]

\* String.prototype.split(','): the pieces between the commas.
RECURSIVE Split(_)
Split(s) ==
  IF \A i \in 1..Len(s) : s[i] # ","
  THEN << s >>
  ELSE LET i == CHOOSE j \in 1..Len(s) :
                  s[j] = "," /\ \A k \in 1..(j - 1) : s[k] # ","
       IN << SubSeq(s, 1, i - 1) >> \o Split(SubSeq(s, i + 1, Len(s)))

\* String.prototype.trim(): without the leading and trailing spaces.
RECURSIVE Trim(_)
Trim(s) ==
  IF s = <<>> THEN s
  ELSE IF s[1] = " " THEN Trim(Tail(s))
  ELSE IF s[Len(s)] = " " THEN Trim(SubSeq(s, 1, Len(s) - 1))
  ELSE s

\* a || b on header values: undefined and the empty string are falsy, an
\* array is truthy.
HeaderTruthy(h) == h.t = "array" \/ (h.t = "string" /\ h.v # <<>>)

\* A parseForwardedFor that takes the last entry of the list.
C26_parseForwardedForLast(request) ==
  LET header == IF HeaderTruthy(request.xOriginalForwardedFor)
                THEN request.xOriginalForwardedFor ELSE request.xForwardedFor
      ipParts == IF header.t = "array" THEN header.v
                 ELSE [i \in 1..Len(Split(header.v)) |-> Trim(Split(header.v)[i])]
  IN IF header.t # "undefined" /\ Len(header.v) > 0 /\ Len(ipParts) > 0
     THEN StrHeader(ipParts[Len(ipParts)])
     ELSE NoHeader

\* parseForwardedFor(request): the address, or null (NoHeader).
parseForwardedFor(request) ==
  LET header == IF HeaderTruthy(request.xOriginalForwardedFor)
                THEN request.xOriginalForwardedFor ELSE request.xForwardedFor
      ipParts == IF header.t = "array" THEN header.v
                 ELSE [i \in 1..Len(Split(header.v)) |-> Trim(Split(header.v)[i])]
      index == IF Len(ipParts) >= 2 THEN Len(ipParts) - 2 ELSE 0
  IN IF header.t # "undefined" /\ Len(header.v) > 0 /\ Len(ipParts) > 0
     THEN StrHeader(ipParts[index + 1])
     ELSE NoHeader

\* isExpressRequest(request)
isExpressRequest(request) == request.ip.t # "undefined"

\* getIp(request)
getIp(request) ==
  LET ip == parseForwardedFor(request)
  IN IF HeaderTruthy(ip) THEN ip
     ELSE IF isExpressRequest(request) THEN request.ip
     ELSE IF HeaderTruthy(request.remoteAddress) THEN request.remoteAddress
     ELSE StrHeader(<<>>)

IpIdle ==
  /\ ipRequest = [xOriginalForwardedFor |-> NoHeader, xForwardedFor |-> NoHeader,
                  ip |-> NoHeader, remoteAddress |-> NoHeader]
  /\ ipResult = NoHeader

\* One call of getIp.
GetIp ==
  /\ ipResult = NoHeader
  /\ ipResult' = getIp(ipRequest)
  /\ UNCHANGED <<ipRequest, dispVars, bodyVars, formVars, queryVars, gqlVars, flightVars>>

\* ------------------------------------------------------------ requests in flight
\* One started server with a fixed table and two requests in flight: the
\* listener is an async function, so the run of one request stops at each
\* await of a handler and the other request's run may go on in between.
\* url, pathname, query and the position of the for...of loop are locals of
\* one call of the listener; the table and the emitter are the server's.
Requests == 1..2

\* What a handler does with a request: resolve with undefined, resolve
\* with a ServerResult, reject, or write the response head itself
\* (res.writeHead(200)) and then reject.
Behaviours == {"nothing", "result", "throws", "writes-throws"}

FlightUrls == {"/x", "/y?a=1", "//"}
FlightResult == [statusCode |-> 0, result |-> Str("OK"), contentType |-> None]
FlightError == [class |-> "Error", status |-> 0, message |-> "boom"]

FlightHandler(does) == [kind |-> "user", to |-> "", statusCode |-> 0, does |-> does]
FlightEntries ==
  {[handler |-> FlightHandler(b), url |-> UrlUndefined, method |-> None] : b \in Behaviours}
  \cup {[handler |-> FlightHandler(b), url |-> [t |-> "string", v |-> "/x"],
         method |-> "GET"] : b \in Behaviours}
FlightTables == UNION {[1..n -> FlightEntries] : n \in 0..MaxHandlers}

\* parsedUrl.searchParams of the modelled urls.
SearchParamsOf(url) == IF url = "/y?a=1" THEN << <<"a", "1">> >> ELSE <<>>

\* The loop over searchParams.entries(), from entry i on.
RECURSIVE QueryFrom(_, _, _)
QueryFrom(params, i, q) ==
  IF i > Len(params) THEN q
  ELSE QueryFrom(params, i + 1, QueryEntry(q, params[i][1], params[i][2]))

\* The response of a request in flight: headersSent as node keeps it, and
\* the calls made on it that node refuses once the head is sent.
FlightResponse ==
  [statusCode |-> 0, contentType |-> None, location |-> None,
   body |-> Undefined, ended |-> 0, headersSent |-> FALSE, refused |-> <<>>]

\* The locals of one call of the listener, its response, the handler calls
\* it has made (history), and whether it has taken a step after an await
\* while the other request was suspended at one (history).
IdleFlight ==
  [pc |-> "idle", method |-> "", url |-> "", pathname |-> "", query |-> EmptyQuery,
   idx |-> 0, invoked |-> <<>>, res |-> FlightResponse, failed |-> FALSE,
   beside |-> FALSE]

FlightIdle == flights = [r \in Requests |-> IdleFlight]

\* respond(res, ...) on a response whose head may be sent already:
\* res.statusCode takes the assignment, res.setHeader() throws
\* ERR_HTTP_HEADERS_SENT, and res.end() is not reached.
respondInFlight(r, statusCode, result, contentType) ==
  IF r.headersSent
  THEN [threw |-> TRUE,
        res |-> [r EXCEPT !.statusCode = statusCode,
                          !.refused = Append(@, "setHeader")]]
  ELSE LET out == respond(r, statusCode, result, contentType)
       IN [threw |-> out.threw,
           res |-> [out.res EXCEPT !.headersSent = ~out.threw]]

\* A walk whose position is a field of the server, shared by the requests
\* in flight.
C33_PositionOfServer(f, all) ==
  LET S == {all[r].idx : r \in DOMAIN all}
  IN 1 + CHOOSE i \in S : \A j \in S : i >= j

\* Where the for...of loop of this call of the listener goes on: after the
\* entry it awaited, whatever the other calls do.
PositionAfterAwait(f, all) == f.idx + 1

\* The listener of flight f from entry `from` up to its next await or its
\* end.
WalkInFlight(stack, from, f) ==
  LET i == NextMatch(stack, from, f.method, f.pathname)
  IN IF i = 0
     THEN LET out == respondInFlight(f.res, 404, NotFoundResponse, None)
          IN [f EXCEPT !.pc = IF out.threw THEN "rejected" ELSE "done",
                       !.idx = 0, !.res = out.res]
     ELSE [f EXCEPT !.pc = "awaiting", !.idx = i,
                    !.invoked = Append(@, [idx |-> i, pathname |-> f.pathname,
                                           query |-> f.query])]

\* The listener from its start up to its first await or its end, and the
\* events it emits on the way.
StartInFlight(stack, method, url) ==
  LET parsedUrl == URLparse(url)
      f == [IdleFlight EXCEPT !.method = method, !.url = url]
  IN IF ~parsedUrl.ok
     THEN LET out == respondInFlight(f.res, 404, NotFoundResponse, None)
          IN [flight |-> [f EXCEPT !.pc = "done", !.res = out.res],
              events |-> << [name |-> "invalid-url", url |-> url,
                             error |-> InvalidUrlError] >>]
     ELSE [flight |-> WalkInFlight(stack, 1,
                        [f EXCEPT !.pathname = parsedUrl.pathname,
                                  !.query = QueryFrom(SearchParamsOf(url), 1, EmptyQuery)]),
           events |-> <<>>]

\* The catch branch for flight f: translate, emit, respond.
CatchInFlight(e, f) ==
  LET errorInfo == errorHandler(e)
      out == respondInFlight(f.res, errorInfo.statusCode, errorInfo.result,
                             errorInfo.contentType)
  IN [flight |-> [f EXCEPT !.pc = IF out.threw THEN "rejected" ELSE "done",
                           !.res = out.res, !.failed = TRUE],
      events |-> << [name |-> "client-request-failed", status |-> errorInfo.statusCode,
                     errorResponse |-> errorInfo.result, stack |-> e] >>]

\* The awaited handler of flight f settles, and the listener runs on to its
\* next await or its end.
SettleInFlight(stack, f, all) ==
  LET does == stack[f.idx].handler.does
  IN CASE does = "nothing" ->
            [flight |-> WalkInFlight(stack, PositionAfterAwait(f, all), f),
             events |-> <<>>]
       [] does = "result" ->
            LET out == respondInFlight(f.res, StatusOrDefault(FlightResult),
                                       FlightResult.result, FlightResult.contentType)
            IN IF out.threw
               THEN CatchInFlight(InvalidChunkError, [f EXCEPT !.res = out.res])
               ELSE [flight |-> [f EXCEPT !.pc = "done", !.res = out.res],
                     events |-> <<>>]
       [] does = "throws" -> CatchInFlight(FlightError, f)
       [] OTHER ->
            CatchInFlight(FlightError,
                          [f EXCEPT !.res.statusCode = 200, !.res.headersSent = TRUE])

Awaits(r, does) ==
  /\ flights[r].pc = "awaiting"
  /\ handlerStack[flights[r].idx].handler.does = does

Settles(r) ==
  LET out == SettleInFlight(handlerStack, flights[r], flights)
      beside == \E o \in Requests \ {r} : flights[o].pc = "awaiting"
  IN /\ flights' = [flights EXCEPT ![r] = [out.flight EXCEPT !.beside = @ \/ beside]]
     /\ emitted' = emitted \o out.events
     /\ UNCHANGED <<handlerStack, started, rq, res, trace>>
     /\ UNCHANGED <<bodyVars, formVars, queryVars, gqlVars, ipVars>>

\* A request arrives while the other may be in flight.
ReceiveInFlight(r, method, url) ==
  /\ started
  /\ flights[r].pc = "idle"
  /\ LET out == StartInFlight(handlerStack, method, url)
     IN /\ flights' = [flights EXCEPT ![r] = out.flight]
        /\ emitted' = emitted \o out.events
  /\ UNCHANGED <<handlerStack, started, rq, res, trace>>
  /\ UNCHANGED <<bodyVars, formVars, queryVars, gqlVars, ipVars>>

ReturnsNothingInFlight(r) == Awaits(r, "nothing") /\ Settles(r)
ReturnsResultInFlight(r) == Awaits(r, "result") /\ Settles(r)
ThrowsInFlight(r) == Awaits(r, "throws") /\ Settles(r)
WritesHeadAndThrowsInFlight(r) == Awaits(r, "writes-throws") /\ Settles(r)

Init ==
  /\ FlightIdle
  /\ decoder = "clean"
  /\ form = IdleForm
  /\ file = NoFile
  /\ consumer = NoConsumer
  /\ searchParams = <<>>
  /\ query = EmptyQuery
  /\ entry = 0
  /\ headers = [contentType |-> None]
  /\ stream = FreshStream
  /\ calls = [c \in Calls |-> IdleCall]
  /\ handlerStack = <<>>
  /\ started = FALSE
  /\ rq = FreshRequest
  /\ res = FreshResponse
  /\ emitted = <<>>
  /\ trace = <<>>
  /\ GraphQLIdle
  /\ IpIdle

Next ==
  \/ \E m \in Matchers : get(m)
  \/ \E m \in Matchers : post(m)
  \/ \E m \in Matchers : patch(m)
  \/ \E m \in Matchers : put(m)
  \/ \E m \in Matchers : delete(m)
  \/ useHandler
  \/ \E m \in Matchers, b \in BOOLEAN : useUrl(m, b)
  \/ \E f \in StringUrls, t \in StringUrls, c \in RedirectStatusArgs : redirect(f, t, c)
  \/ start
  \/ \E m \in RequestMethods, u \in RequestUrls : Receive(m, u)
  \/ HandlerReturnsNothing
  \/ \E hr \in AllResults : HandlerReturnsResult(hr)
  \/ \E e \in Errors : HandlerThrows(e)

Spec == Init /\ [][Next]_vars

\* One request stream, with any of the modelled content-type headers, and
\* the calls of parseBodyFromRequest made on it.
InitBody ==
  /\ FlightIdle
  /\ decoder = "clean"
  /\ form = IdleForm
  /\ file = NoFile
  /\ consumer = NoConsumer
  /\ searchParams = <<>>
  /\ query = EmptyQuery
  /\ entry = 0
  /\ headers \in {[contentType |-> ct] : ct \in ContentTypes}
  /\ stream = FreshStream
  /\ calls = [c \in Calls |-> IdleCall]
  /\ handlerStack = <<>>
  /\ started = FALSE
  /\ rq = FreshRequest
  /\ res = FreshResponse
  /\ emitted = <<>>
  /\ trace = <<>>
  /\ GraphQLIdle
  /\ IpIdle

NextBody ==
  \/ \E c \in Calls, m \in MaxBodySizes, k \in Kinds : parseBodyFromRequest(c, m, k)
  \/ \E chunk \in Chunks : DataEvent(chunk)
  \/ EndEvent
  \/ ErrorEvent

SpecBody == InitBody /\ [][NextBody]_vars

\* Calls of getFormDataFromRequest one after the other, each with the
\* events busboy, the file stream and the caller can produce.
InitForm ==
  /\ FlightIdle
  /\ decoder = "clean"
  /\ form = IdleForm
  /\ file = NoFile
  /\ consumer = NoConsumer
  /\ searchParams = <<>>
  /\ query = EmptyQuery
  /\ entry = 0
  /\ headers = [contentType |-> None]
  /\ stream = FreshStream
  /\ calls = [c \in Calls |-> IdleCall]
  /\ handlerStack = <<>>
  /\ started = FALSE
  /\ rq = FreshRequest
  /\ res = FreshResponse
  /\ emitted = <<>>
  /\ trace = <<>>
  /\ GraphQLIdle
  /\ IpIdle

NextForm ==
  \/ getFormDataFromRequest
  \/ \E field \in FormFields : FieldEvent(field[1], field[2])
  \/ \E n \in PartNames, f \in PartFilenames, m \in MimeTypes,
        g \in GuessedFileTypes, t \in TextKinds : FileEvent(n, f, m, g, t)
  \/ \E size \in FileChunkSizes : FileData(size)
  \/ FileEnd
  \/ FileEndEmitted
  \/ ConsumerRead
  \/ ConsumerEnd
  \/ BusboyErrorEvent
  \/ FinishEvent

SpecForm == InitForm /\ [][NextForm]_vars

\* The same calls, where an event that can happen does happen in the end:
\* busboy goes on parsing, and the caller goes on reading.
SpecFormFair == SpecForm /\ WF_vars(NextForm)

\* The query string of one request, decoded entry by entry.
InitQuery ==
  /\ FlightIdle
  /\ searchParams \in ParamLists
  /\ query = EmptyQuery
  /\ entry = 0
  /\ decoder = "clean"
  /\ form = IdleForm
  /\ file = NoFile
  /\ consumer = NoConsumer
  /\ headers = [contentType |-> None]
  /\ stream = FreshStream
  /\ calls = [c \in Calls |-> IdleCall]
  /\ handlerStack = <<>>
  /\ started = FALSE
  /\ rq = FreshRequest
  /\ res = FreshResponse
  /\ emitted = <<>>
  /\ trace = <<>>
  /\ GraphQLIdle
  /\ IpIdle

NextQuery == DecodeEntry

SpecQuery == InitQuery /\ [][NextQuery]_vars

\* One GraphQL server taking requests one after the other.
InitGraphQL ==
  /\ FlightIdle
  /\ GraphQLIdle
  /\ IpIdle
  /\ decoder = "clean"
  /\ form = IdleForm
  /\ file = NoFile
  /\ consumer = NoConsumer
  /\ searchParams = <<>>
  /\ query = EmptyQuery
  /\ entry = 0
  /\ headers = [contentType |-> None]
  /\ stream = FreshStream
  /\ calls = [c \in Calls |-> IdleCall]
  /\ handlerStack = <<>>
  /\ started = FALSE
  /\ rq = FreshRequest
  /\ res = FreshResponse
  /\ emitted = <<>>
  /\ trace = <<>>

NextGraphQL ==
  \/ \E ct \in GraphQLContentTypes : GraphQLReceive(ct)
  \/ graphQLMiddleware
  \/ \E parsed \in ParsedForms : ParseResolved(parsed)
  \/ \E error \in ParseFailures : ParseRejected(error)
  \/ \E hr \in GraphQLResults : RouteReturns(hr)
  \/ \E e \in GraphQLErrors : RouteThrows(e)
  \/ \E errors \in ErrorLists : PostHandlerReturnsErrors(errors)

SpecGraphQL == InitGraphQL /\ [][NextGraphQL]_vars

\* One request handed to getIp.
InitIp ==
  /\ FlightIdle
  /\ ipRequest \in IpRequests
  /\ ipResult = NoHeader
  /\ GraphQLIdle
  /\ decoder = "clean"
  /\ form = IdleForm
  /\ file = NoFile
  /\ consumer = NoConsumer
  /\ searchParams = <<>>
  /\ query = EmptyQuery
  /\ entry = 0
  /\ headers = [contentType |-> None]
  /\ stream = FreshStream
  /\ calls = [c \in Calls |-> IdleCall]
  /\ handlerStack = <<>>
  /\ started = FALSE
  /\ rq = FreshRequest
  /\ res = FreshResponse
  /\ emitted = <<>>
  /\ trace = <<>>

NextIp == GetIp

SpecIp == InitIp /\ [][NextIp]_vars

\* One started server and two requests in flight.
InitFlight ==
  /\ FlightIdle
  /\ GraphQLIdle
  /\ IpIdle
  /\ decoder = "clean"
  /\ form = IdleForm
  /\ file = NoFile
  /\ consumer = NoConsumer
  /\ searchParams = <<>>
  /\ query = EmptyQuery
  /\ entry = 0
  /\ headers = [contentType |-> None]
  /\ stream = FreshStream
  /\ calls = [c \in Calls |-> IdleCall]
  /\ handlerStack \in FlightTables
  /\ started = TRUE
  /\ rq = FreshRequest
  /\ res = FreshResponse
  /\ emitted = <<>>
  /\ trace = <<>>

NextFlight ==
  \/ \E r \in Requests, m \in RequestMethods, u \in FlightUrls : ReceiveInFlight(r, m, u)
  \/ \E r \in Requests : ReturnsNothingInFlight(r)
  \/ \E r \in Requests : ReturnsResultInFlight(r)
  \/ \E r \in Requests : ThrowsInFlight(r)
  \/ \E r \in Requests : WritesHeadAndThrowsInFlight(r)

SpecFlight == InitFlight /\ [][NextFlight]_vars

\* ------------------------------------------------------------ claims: dispatcher
\* The matching rule as the specification words it: (a) the method is unset
\* or equal, and (b) the matcher is unset, an equal string, or a RegExp that
\* tests true.
ClaimMatch(h, method, pathname) ==
  /\ h.method = None \/ h.method = method
  /\ \/ h.url.t = "undefined"
     \/ h.url.t = "string" /\ h.url.v = pathname
     \/ h.url.t = "regexp" /\ RegExpTest(h.url.v, pathname)

IsInvoke(p, i) == trace[p].ev = "invoke" /\ trace[p].idx = i
IsReturned(p, i, kind) ==
  trace[p].ev = "returned" /\ trace[p].idx = i /\ trace[p].kind = kind
Count(ev) == Cardinality({p \in DOMAIN trace : trace[p].ev = ev})

\* The body res.end() is given for a written result.
Written(result) == IF result.t = "string" THEN result ELSE JSONstringify(result)

\* C1: whenever an entry B is invoked for a request, every entry A registered
\* before B that also matches the request was invoked earlier and had
\* returned nothing before B was started.
C1_OrderedWalk ==
  \A p \in DOMAIN trace :
    trace[p].ev = "invoke" =>
      \A a \in 1..(trace[p].idx - 1) :
        ClaimMatch(handlerStack[a], rq.method, rq.pathname) =>
          \E q \in 1..(p - 2) : IsInvoke(q, a) /\ IsReturned(q + 1, a, "nothing")

\* Two matching entries were both invoked, the second after the first
\* returned nothing.
C1_Witness ==
  \E p \in DOMAIN trace, a \in DOMAIN handlerStack, b \in DOMAIN handlerStack :
    /\ a < b /\ p + 2 \in DOMAIN trace
    /\ ClaimMatch(handlerStack[a], rq.method, rq.pathname)
    /\ ClaimMatch(handlerStack[b], rq.method, rq.pathname)
    /\ IsInvoke(p, a) /\ IsReturned(p + 1, a, "nothing") /\ IsInvoke(p + 2, b)

Writable(hr) ==
  hr.result.t = "string" \/ hr.contentType \in {None, "application/json"}

ClaimNext(i) ==
  LET S == {j \in (i + 1)..Len(handlerStack) :
              ClaimMatch(handlerStack[j], rq.method, rq.pathname)}
  IN IF S = {} THEN 0 ELSE CHOOSE j \in S : \A k \in S : j <= k

\* C3: the step in which the awaited handler returns nothing sends nothing
\* for it and starts the next matching entry in registration order; only
\* when no later entry matches does it end the walk (with the 404 reply).
C3_PassThrough ==
  [][ ( /\ rq.pc = "awaiting"
        /\ Len(trace') > Len(trace)
        /\ trace'[Len(trace) + 1].ev = "returned"
        /\ trace'[Len(trace) + 1].kind = "nothing" )
      => LET j == ClaimNext(rq.idx)
         IN /\ Len(trace') = Len(trace) + 2
            /\ IF j # 0
               THEN /\ rq'.pc = "awaiting" /\ rq'.idx = j
                    /\ trace'[Len(trace) + 2] = [ev |-> "invoke", idx |-> j]
                    /\ res'.ended = 0 /\ res'.statusCode = 0
               ELSE /\ rq'.pc = "done"
                    /\ res'.statusCode = 404 ]_vars

\* A middleware returned nothing and the next matching entry answered.
C3_Witness ==
  \E p \in DOMAIN trace :
    /\ p + 3 \in DOMAIN trace
    /\ trace[p].ev = "invoke"
    /\ IsReturned(p + 1, trace[p].idx, "nothing")
    /\ trace[p + 2].ev = "invoke" /\ trace[p + 2].idx > trace[p].idx
    /\ IsReturned(p + 3, trace[p + 2].idx, "result")
    /\ handlerStack[trace[p].idx].method = None
    /\ rq.pc = "done" /\ res.ended = 1
    /\ res.body = Written(trace[p + 3].handlerResult.result)

NotFoundBody == Str("{\"error\":\"not_found\",\"message\":\"Path not found\"}")

\* C5: a request with a parsable url whose walk has ended without a handler
\* returning a Result or throwing is answered 404 with the not-found payload.
C5_NotFoundAfterWalk ==
  ( /\ rq.pc = "done"
    /\ URLparse(rq.url).ok
    /\ \A p \in DOMAIN trace :
         trace[p].ev = "returned" => trace[p].kind = "nothing" )
  => /\ res.ended = 1
     /\ res.statusCode = 404
     /\ res.contentType = "application/json"
     /\ res.body = NotFoundBody

\* The only matching entry returned nothing and the request got the 404.
C5_Witness ==
  /\ rq.pc = "done"
  /\ Len(trace) = 3
  /\ trace[1].ev = "invoke" /\ IsReturned(2, trace[1].idx, "nothing")
  /\ trace[3].ev = "respond"
  /\ res.statusCode = 404 /\ res.body = NotFoundBody

Pathnames == {URLparse(u).pathname : u \in {v \in RequestUrls : URLparse(v).ok}}

\* C6: for every entry the registration operations can build, every method
\* and every pathname, matchHandler agrees with the matching rule; and
\* every entry the walk invoked matches the request by that rule.
C6_MatchRule ==
  /\ \A i \in DOMAIN handlerStack, m \in Methods, pn \in Pathnames :
       matchHandler(m, pn, handlerStack[i]) <=> ClaimMatch(handlerStack[i], m, pn)
  /\ \A p \in DOMAIN trace :
       trace[p].ev = "invoke" =>
         ClaimMatch(handlerStack[trace[p].idx], rq.method, rq.pathname)

\* POST /x with a GET "/x" entry registered before a path-scoped middleware
\* on "/x": the GET entry is skipped and the middleware is invoked first;
\* and GET /x/ skips an exact "/x" entry.
C6_Witness ==
  /\ Len(handlerStack) = 2
  /\ handlerStack[1].method = "GET" /\ handlerStack[1].url = [t |-> "string", v |-> "/x"]
  /\ handlerStack[2].method = None /\ handlerStack[2].url = [t |-> "string", v |-> "/x"]
  /\ rq.method = "POST" /\ rq.pathname = "/x"
  /\ trace # <<>> /\ IsInvoke(1, 2)
  /\ ~matchHandler("GET", "/x/", handlerStack[1])

C8_SizeLimit ==
  \A c \in Calls :
    calls[c].attached =>
      /\ calls[c].bodySize > calls[c].maxBodySize =>
           /\ stream.destroyed /\ ~stream.endEmitted
           /\ calls[c].pc = "rejected"
           /\ calls[c].outcome.type = "ServerError" /\ calls[c].outcome.status = 413
           /\ calls[c].settledBy = "data"
           /\ calls[c].bodySize - Len(calls[c].body[Len(calls[c].body)])
                <= calls[c].maxBodySize
      /\ calls[c].outcome.status = 413 => calls[c].bodySize > calls[c].maxBodySize

\* A body of two chunks: the first within the limit, the second crossing
\* it; the call failed with 413 and the stream is destroyed, no 'end' seen.
C8_Witness ==
  /\ calls[1].attached /\ Len(calls[1].body) = 2
  /\ Len(calls[1].body[1]) <= calls[1].maxBodySize
  /\ calls[1].bodySize > calls[1].maxBodySize
  /\ calls[1].outcome.status = 413
  /\ stream.destroyed /\ ~stream.endEmitted

\* The second call was made after the first had settled.
SecondAfterFirst == calls[2].pc # "idle" /\ calls[2].afterSettled

\* The second call failed with the 400 failure and attached no listener.
SecondAlreadyParsed ==
  /\ calls[2].pc = "rejected"
  /\ calls[2].outcome.type = "ServerError" /\ calls[2].outcome.status = 400
  /\ ~calls[2].attached /\ calls[2].body = <<>> /\ calls[2].bodySize = 0

\* C9 as stated: a second call made after the first one has completed fails
\* with the 400 failure and reads nothing.
C9_SecondCallFails == SecondAfterFirst => SecondAlreadyParsed

\* C9 amended: a second call made after the first one has completed fails
\* with the 400 failure and reads nothing, unless the first call failed with
\* 415 (it read nothing and left the stream readable): then the second call
\* fails and reads nothing as well, with 415 again, or with 400 when the
\* stream has stopped being readable in between.
C9_SecondCallFailsUnless415 ==
  SecondAfterFirst =>
    IF calls[1].outcome.status = 415
    THEN /\ calls[2].pc = "rejected" /\ calls[2].outcome.status \in {400, 415}
         /\ calls[2].outcome.status = 400 => ~Readable(stream)
         /\ ~calls[2].attached /\ calls[2].body = <<>>
    ELSE SecondAlreadyParsed

\* The first call read a body of two chunks to its end and resolved; the
\* second call failed with 400.
C9_Witness ==
  /\ calls[1].pc = "resolved" /\ Len(calls[1].body) = 2
  /\ SecondAfterFirst /\ SecondAlreadyParsed

\* C10: 'end' settles every call that is reading the stream, and what a call
\* settled by 'end' yields is fixed by its kind: the decoded text for string,
\* the concatenated bytes for buffer, and for JSON the empty object for an
\* empty body, the parsed value for a JSON text, a SyntaxError otherwise.
C10_EndResult ==
  \A c \in Calls :
    /\ (calls[c].attached /\ stream.endEmitted) => calls[c].settledBy = "end"
    /\ calls[c].settledBy = "end" =>
         LET bytes == BufferConcat(calls[c].body)
             text == Utf8Decode(bytes)
         IN /\ calls[c].kind = "string" => calls[c].outcome = Resolved("string", text)
            /\ calls[c].kind = "buffer" => calls[c].outcome = Resolved("buffer", bytes)
            /\ calls[c].kind = "JSON" =>
                 calls[c].outcome =
                   IF calls[c].body = <<>> \/ text = <<123, 125>>
                   THEN Resolved("object", <<>>)
                   ELSE Rejected("SyntaxError", 0)

\* One stream read by two calls to its end: "{" then 0xFF is returned as
\* the two bytes by the buffer call and fails the JSON call.
C10_Witness ==
  /\ stream.endEmitted
  /\ calls[1].kind = "buffer" /\ calls[1].body = << <<123>>, <<255>> >>
  /\ calls[1].outcome = Resolved("buffer", <<123, 255>>)
  /\ calls[2].kind = "JSON" /\ calls[2].body = calls[1].body
  /\ calls[2].outcome = Rejected("SyntaxError", 0)

\* ------------------------------------------------------------ claims: multipart parser
IsResolved == form.outcome.t = "resolved"
IsRejected == form.outcome.t = "rejected"
RejectedWith(error) == IsRejected /\ form.outcome.error = error
\* The file part has been handled: refused or destroyed, classified, or
\* read to its end.
FileHandled ==
  form.active /\ (file.state = "destroyed" \/ file.classified > 0
                    \/ file.endEmitted)
SampleLength == BufferLength(file.sent, file.buffer)
NoSignature == getSupportedFileType(filetypeinfo(file)).t = "null"

C12_StreamRestitution ==
  (form.active /\ consumer.ended) =>
    /\ file.sourceEnded
    /\ consumer.drained = [i \in 1..Len(file.sent) |-> i]

\* Three chunks of 40, 60 and 40 bytes: the sample of the first two is put
\* back, the third follows, and the caller has read all three.
C12_Witness ==
  /\ form.active /\ consumer.ended /\ consumer.source = "fileStream"
  /\ file.sent = <<40, 60, 40>> /\ file.buffer = <<1, 2>>
  /\ consumer.drained = <<1, 2, 3>>

\* A file part arrives: the step of the 'file' listener.
FileArrives == file.state = "none" /\ file'.state # "none"
Discarded ==
  /\ file'.state = "destroyed"
  /\ ~file'.onData /\ ~file'.onEnd
  /\ file'.buffer = <<>> /\ file'.classified = 0

\* C13: a file part that arrives while no query value has been captured
\* is rejected at once with 'Form fields must go before file', and its
\* stream is destroyed without being sampled.
C13_FieldsBeforeFile ==
  [][ (FileArrives /\ form.query = Null) =>
        /\ form'.outcome = [t |-> "rejected", error |-> FieldsBeforeFile]
        /\ Discarded ]_vars

\* C13 amended: a file part whose form field has a name and that arrives
\* while no query value (or only an empty one) has been captured is
\* rejected at once with 'Form fields must go before file'; a file part
\* whose form field has no name is rejected with 'Filename is empty'
\* whether or not a query was captured; in both cases the stream is
\* destroyed without being sampled.
C13_NamedFileBeforeQuery ==
  [][ /\ (FileArrives /\ Falsy(form.query) /\ file'.fieldName # "") =>
           /\ form'.outcome = [t |-> "rejected", error |-> FieldsBeforeFile]
           /\ Discarded
      /\ (FileArrives /\ file'.fieldName = "") =>
           /\ form'.outcome = [t |-> "rejected", error |-> FilenameIsEmpty]
           /\ Discarded ]_vars

\* A named file part arrived before any query field and was refused; the
\* query field that followed changed nothing.
C13_Witness ==
  /\ form.active /\ file.state = "destroyed" /\ file.fieldName = "upload"
  /\ file.sent = <<>> /\ file.classified = 0
  /\ RejectedWith(FieldsBeforeFile)
  /\ form.query = Str("v")

\* C14: a file with no supported signature and a MIME type outside the text
\* family is rejected with 'File is too small or file type is not
\* supported' when its stream ended below the sample size, and with 'File
\* type not supported' when its sample reached the sample size; it is
\* never accepted.
C14_UnsupportedFile ==
  (form.active /\ file.state = "open" /\ NoSignature
     /\ file.mimeType \notin TEXT_TYPES) =>
    /\ (file.endEmitted /\ SampleLength < SampleSize) =>
         RejectedWith(FileTooSmall)
    /\ (SampleLength >= SampleSize) => RejectedWith(FileTypeNotSupported)
    /\ ~IsResolved

\* An 80-byte file of an unsupported type, declared image/png, has ended.
C14_Witness ==
  /\ form.active /\ file.endEmitted /\ file.sent = <<40, 40>>
  /\ file.guessed = << Guess("exe", "application/x-msdownload") >>
  /\ file.mimeType = "image/png"
  /\ RejectedWith(FileTooSmall)

\* C15: the candidates of a resolved parse are a non-empty list, and every
\* candidate that signature detection produced is a supported type.
C15_SupportedCandidates ==
  (form.active /\ IsResolved) =>
    LET info == form.outcome.value.fileTypeInfo
    IN /\ Len(info) >= 1
       /\ \A i \in 1..Len(info) :
            (\E j \in 1..Len(file.guessed) : file.guessed[j] = info[i])
              => info[i].typename \in SupportedFileType

\* A file with a container signature shared by zip and xlsx is accepted
\* with the one candidate xlsx.
C15_Witness ==
  /\ form.active /\ IsResolved
  /\ Len(file.guessed) = 2
  /\ form.outcome.value.fileTypeInfo = << file.guessed[2] >>

\* The sample is valid text: every character complete, or, for a sample
\* taken from a stream that has not ended, cut inside its last character.
SampleDecodes ==
  \/ SampleText(file) \in {"valid", "empty"}
  \/ file.text = "cut" /\ SampleLength >= SampleSize
TextFallback == NoSignature /\ file.mimeType \in TEXT_TYPES
AcceptedAsText ==
  /\ IsResolved
  /\ \E i \in 1..Len(form.outcome.value.fileTypeInfo) :
       form.outcome.value.fileTypeInfo[i].mime \in TEXT_TYPES

\* C16: a file is accepted as its declared text type only if signature
\* detection found nothing, the declared MIME type is of the text family
\* and the sample is valid text; a sample of such a file that is not valid
\* text makes the parse fail, and no stream is delivered.
C16_StrictTextFallback ==
  form.active =>
    /\ AcceptedAsText => TextFallback /\ SampleDecodes
    /\ (file.classified > 0 /\ TextFallback /\ ~SampleDecodes) =>
         IsRejected /\ consumer.source = "none"
    /\ (IsResolved /\ ~TextFallback) =>
         form.outcome.value.fileTypeInfo = SelectSeq(file.guessed, IsSupported)

\* ------------------------------------------------------------ claims: query decoding
\* The values of key k among the entries the loop has taken, in order.
ValuesOf(k) ==
  LET HasKey(p) == p[1] = k
      taken == SelectSeq(SubSeq(searchParams, 1, entry), HasKey)
  IN [i \in 1..Len(taken) |-> Str(taken[i][2])]

\* C17: after any number of entries, a key that has not occurred is absent
\* from query, a key that occurred once holds its value as a scalar, and a
\* key that occurred twice or more holds the list of all its values in
\* arrival order.
C17_ScalarOrList ==
  \A k \in QueryKeys :
    LET values == ValuesOf(k)
    IN /\ Len(values) = 0 => query[k].t = "undefined"
       /\ Len(values) = 1 => query[k].t = "string" /\ query[k] = values[1]
       /\ Len(values) >= 2 => query[k].t = "array" /\ query[k].v = values

\* ------------------------------------------------------------ claims: invalid url, redirect, translator
\* C18: a request whose url cannot be parsed ("//") emits exactly one
\* event, invalid-url with the url and the error, and is answered 404 with
\* the not-found payload; no handler is invoked, the Error Translator is
\* not called and no client-request-failed event is emitted.
C18_InvalidUrl ==
  rq.url = "//" =>
    /\ rq.pc = "done"
    /\ emitted = << [name |-> "invalid-url", url |-> "//",
                     error |-> InvalidUrlError] >>
    /\ res.ended = 1 /\ res.statusCode = 404
    /\ res.body = Written(NotFoundResponse)
    /\ Count("invoke") = 0
    /\ Count("errorHandler") = 0
    /\ \A i \in DOMAIN emitted : emitted[i].name # "client-request-failed"

\* GET "//" while a middleware that matches every request is registered.
C18_Witness ==
  /\ rq.url = "//" /\ rq.method = "GET" /\ rq.pc = "done"
  /\ \E i \in DOMAIN handlerStack :
       handlerStack[i].method = None /\ handlerStack[i].url.t = "undefined"
  /\ res.statusCode = 404

IsRedirect(i) == handlerStack[i].handler.kind = "redirect"
\* The entry redirect(from, to, statusCode) registers; 0 stands for a
\* status code that was not given.
RedirectEntry(from, to, statusCode) ==
  [handler |-> [kind |-> "redirect", to |-> to,
                statusCode |-> IF statusCode = 0 THEN 301 ELSE statusCode],
   url |-> [t |-> "string", v |-> from], method |-> "GET"]
RedirectRegistered ==
  \A f \in StringUrls, t \in StringUrls, c \in RedirectStatusArgs :
    redirect(f, t, c) =>
      IF f = t
      THEN handlerStack' = handlerStack
      ELSE handlerStack' = Append(handlerStack, RedirectEntry(f, t, c))
RedirectServed ==
  \A p \in DOMAIN trace :
    (trace[p].ev = "invoke" /\ IsRedirect(trace[p].idx)) =>
      LET h == handlerStack[trace[p].idx]
      IN /\ rq.method = "GET" /\ rq.pathname = h.url.v
         /\ h.url.v # h.handler.to
         /\ res.location = h.handler.to
         /\ rq.pc = "done" =>
              /\ res.ended = 1
              /\ res.statusCode = h.handler.statusCode
              /\ res.body = Str("OK")

C20_DefaultTranslator ==
  \A p \in DOMAIN trace :
    trace[p].ev = "errorHandler" =>
      LET e == trace[p].error
          info == trace[p].info
          tagged == e.class = "ServerError"
          message == IF tagged THEN e.message ELSE "Something went wrong"
      IN /\ info.statusCode = IF tagged /\ e.status # 0 THEN e.status ELSE 500
         /\ info.result = Obj(<< <<"error", "server_error">>,
                                 <<"message", message>> >>)
         /\ rq.pc = "done" =>
              /\ res.statusCode = info.statusCode
              /\ res.body = Str("{\"error\":\"server_error\",\"message\":\""
                                  \o message \o "\"}")

\* A handler threw a plain Error('boom'): answered 500 with the generic
\* message.
C20_Witness ==
  /\ rq.pc = "done" /\ res.statusCode = 500
  /\ \E p \in DOMAIN trace :
       /\ trace[p].ev = "errorHandler"
       /\ trace[p].error.class = "Error" /\ trace[p].error.message = "boom"
  /\ res.body = Str("{\"error\":\"server_error\",\"message\":\"Something went wrong\"}")

\* ------------------------------------------------------------ claims: body reader, media type
\* C21: a call on a request that declares the multipart/form-data content
\* type fails with 415, or with 400 when the stream is not readable, and
\* has attached no listener and read no byte.
C21_MultipartUnsupported ==
  \A c \in Calls :
    (calls[c].pc # "idle" /\ MediaType(headers.contentType) = "multipart/form-data") =>
      /\ calls[c].pc = "rejected"
      /\ calls[c].outcome.status \in {400, 415}
      /\ ~calls[c].attached /\ calls[c].body = <<>>

\* ------------------------------------------------------------ claims: multipart result
\* C22: the originalFileName of a resolved parse is the part's declared
\* filename when the form field is not named "file".
C22_DeclaredFilenameFirst ==
  (form.active /\ IsResolved /\ file.fieldName # "file") =>
    form.outcome.value.originalFileName = file.filename

\* C22 amended: the originalFileName of a resolved parse is the name of
\* the form field when the field is not named "file"; the part's declared
\* filename is used only for a field named exactly "file".
C22_FieldNameFirst ==
  (form.active /\ IsResolved) =>
    /\ file.fieldName # "file" =>
         form.outcome.value.originalFileName = file.fieldName
    /\ file.fieldName = "file" =>
         form.outcome.value.originalFileName = file.filename

\* A file sent in the field "upload" with the filename "a.png" was accepted
\* as "upload".
C22_Witness ==
  /\ form.active /\ IsResolved
  /\ file.fieldName = "upload" /\ file.filename = "a.png"
  /\ form.outcome.value.originalFileName = "upload"

\* ------------------------------------------------------------ claims: route table
\* C23: once the server has been started no step changes the route table.
C23_TableFrozenAfterStart ==
  [][started => handlerStack' = handlerStack]_vars
\* ------------------------------------------------------------ claims: GraphQL server
\* The request's route has thrown and the listener's catch branch has run.
RouteFailed == gqlReq.thrown # NoError

GraphQLEvents ==
  SelectSeq(gqlEmitted, LAMBDA ev : ev.name \in {"graphql-error", "graphql-jwt-error"})
FailedEvents ==
  SelectSeq(gqlEmitted, LAMBDA ev : ev.name = "client-request-failed")

\* C24: a route that throws a JwtVerifyError is answered with 401 and an
\* auth-error carrying 'Failed with: ' and the inner error's message (or
\* the error's own), a ServerError is answered as the base translator
\* answers it and no graphql event is emitted, and any other failure is
\* answered with 500 and unknown-type; in the JWT and the unhandled case
\* the one graphql event emitted comes before the one client-request-failed
\* event.
C24_GraphQLTranslator ==
  RouteFailed =>
    LET e == gqlReq.thrown
    IN /\ gqlRes.ended = 1
       /\ Len(FailedEvents) = 1
       /\ e.class = "JwtVerifyError" =>
            /\ gqlRes.statusCode = 401
            /\ gqlRes.body =
                 ErrorsBody("auth-error",
                            "Failed with: " \o (IF e.innerError # None
                                                THEN e.innerError ELSE e.message))
            /\ Len(gqlEmitted) = 2 /\ Len(GraphQLEvents) = 1
            /\ gqlEmitted[2].name = "client-request-failed"
       /\ e.class = "ServerError" =>
            /\ gqlRes.statusCode = e.status
            /\ gqlRes.body = Obj(<< <<"error", "server_error">>,
                                    <<"message", e.message>> >>)
            /\ Len(GraphQLEvents) = 0
       /\ e.class \notin {"JwtVerifyError", "ServerError"} =>
            /\ gqlRes.statusCode = 500
            /\ gqlRes.body = ErrorsBody("unknown-type", "Something went wrong")
            /\ Len(gqlEmitted) = 2 /\ Len(GraphQLEvents) = 1
            /\ gqlEmitted[2].name = "client-request-failed"

\* The multipart parse of the request has failed.
ParseFailed ==
  /\ gqlReq.pc \in {"done", "rejected"}
  /\ gqlReq.body.set
  /\ gqlReq.body.query = Unset

\* C25: a failed multipart parse of a request whose content type contains
\* 'multipart' is answered with 400 and a multipart-parse-error after one
\* graphql-error event, without the translator and without the route; a
\* request that is not multipart reaches the route with its body slot as
\* it was.
C25_MultipartMiddleware ==
  /\ ParseFailed =>
       /\ IncludesMultipart(gqlReq.contentType)
       /\ gqlRes.ended = 1 /\ gqlRes.statusCode = 400
       /\ gqlRes.body = ErrorsBody("multipart-parse-error", "Invalid multipart form")
       /\ Len(gqlEmitted) = 1 /\ gqlEmitted[1].name = "graphql-error"
       /\ gqlEmitted[1].errorMessage = "Failed to parse form data from request"
       /\ gqlReq.translator = "none" /\ gqlReq.thrown = NoError
       /\ gqlReq.pc = "done"
  /\ (gqlReq.pc # "idle" /\ ~IncludesMultipart(gqlReq.contentType)) =>
       /\ gqlReq.body = NoBody
       /\ gqlReq.pc # "parsing"
  /\ (gqlReq.pc = "parsing" \/ gqlReq.body.set) => IncludesMultipart(gqlReq.contentType)

C25_Witness ==
  /\ ParseFailed
  /\ gqlReq.contentType = "multipart/form-data; boundary=x"
  /\ gqlRes.statusCode = 400
  /\ gqlEmitted[1].error.message = FileTooSmall
\* ------------------------------------------------------------ claims: getIp
\* The entries of a forwarded-for header: an array as it is, a string split
\* at the commas and trimmed, nothing for an absent or empty header.
ForwardedList(h) ==
  IF h.t = "array" THEN h.v
  ELSE IF h.t = "string" /\ h.v # <<>>
  THEN [i \in 1..Len(Split(h.v)) |-> Trim(Split(h.v)[i])]
  ELSE <<>>

\* C26: getIp reads x-original-forwarded-for when that header is not empty
\* and x-forwarded-for otherwise, and returns the second-to-last entry of a
\* list of two or more and the only entry of a list of one; when that
\* gives no address (no list, or an empty entry) it returns the framework's
\* ip, or else the socket's remote address.
C26_GetIp ==
  ipResult # NoHeader =>
    LET xo == ipRequest.xOriginalForwardedFor
        list == IF xo.t # "undefined" /\ Len(xo.v) > 0
                THEN ForwardedList(xo)
                ELSE ForwardedList(ipRequest.xForwardedFor)
        picked == IF Len(list) >= 2 THEN list[Len(list) - 1]
                  ELSE IF Len(list) = 1 THEN list[1]
                  ELSE <<>>
        fallback == IF ipRequest.ip # NoHeader THEN ipRequest.ip
                    ELSE IF ipRequest.remoteAddress # NoHeader
                    THEN ipRequest.remoteAddress
                    ELSE StrHeader(<<>>)
    IN ipResult = IF picked # <<>> THEN StrHeader(picked) ELSE fallback

C26_Witness ==
  /\ ipRequest.xOriginalForwardedFor = StrHeader(<<>>)
  /\ ipRequest.xForwardedFor = StrHeader(<<"1", ",", "2", ",", "1">>)
  /\ ipResult = StrHeader(<<"2">>)
\* ------------------------------------------------------------ claims: multipart parser, conclusion
Settled == form.active /\ form.outcome # Pending

\* C27: when a parse has concluded, busboy's listeners and the file
\* stream's listeners are detached, the request is unpiped, and the
\* stream is not left paused.
C27_CleanConclusion ==
  Settled =>
    /\ ~form.listening
    /\ ~form.piped
    /\ ~file.onData /\ ~file.onEnd
    /\ ~file.paused

\* C28: once busboy has finished or failed, the call settles.
C28_EventuallySettles ==
  (form.active /\ form.bb \in {"finished", "errored"}) ~> Settled

\* C29: once busboy has emitted 'error', the call is rejected with that
\* error, cleanup has run, and no captured field has been returned.
C29_DecoderError ==
  (form.active /\ form.bb = "errored") =>
    /\ RejectedWith(BusboyError)
    /\ form.cleanups >= 1 /\ ~form.listening /\ ~form.piped

\* C30: the sample is classified, and the stream handed to the caller, only
\* once the buffer holds SampleSize bytes or the stream has ended with
\* fewer; a buffer that has reached SampleSize bytes has been classified,
\* and so has a stream that ended with fewer.
C30_SampleThenClassify ==
  /\ file.classified > 0 =>
       \/ SampleLength >= SampleSize
       \/ file.endEmitted /\ SampleLength < SampleSize
  /\ (IsResolved \/ consumer.source # "none" \/ consumer.drained # <<>>) =>
       file.classified > 0
  /\ SampleLength >= SampleSize => file.classified > 0
  /\ (file.state = "open" /\ file.endEmitted /\ SampleLength < SampleSize) =>
       file.classified > 0

C30_Witness ==
  /\ form.active /\ IsResolved
  /\ Len(file.buffer) = 2 /\ SampleLength = SampleSize
  /\ file.classified = 1 /\ ~file.endEmitted
\* ------------------------------------------------------------ claims: multipart parser, repetition and isolation
\* C31: for one file part classification and cleanup each run at most
\* once, and at most one listener is attached to the request stream.
C31_ClassifiedOnce ==
  form.active =>
    /\ file.classified <= 1
    /\ form.cleanups <= 1
    /\ form.readableListeners <= 1
\* What classification decided: accepted with which candidates, or
\* rejected.
Verdict(outcome) ==
  IF outcome.t = "resolved"
  THEN [accepted |-> TRUE, candidates |-> outcome.value.fileTypeInfo]
  ELSE [accepted |-> FALSE, candidates |-> <<>>]

\* The verdicts the file part just classified gets when no request was
\* parsed before it: the same sample, declared type and captured fields,
\* and a decoder that holds nothing.
VerdictsAlone ==
  LET S == [decoder |-> "clean",
            form |-> [form' EXCEPT !.outcome = Pending],
            file |-> [file' EXCEPT !.classified = 0],
            consumer |-> NoConsumer]
  IN {Verdict(T.form.outcome) : T \in handleFileStreamData(S, file'.endEmitted)}

\* C32: the verdict of a file part's classification is the one the same
\* sample and declared type get with no request parsed before it.
C32_VerdictOfOwnBytes ==
  [][ (form.active /\ file.classified = 0 /\ file'.classified = 1) =>
        Verdict(form'.outcome) \in VerdictsAlone ]_vars
\* ------------------------------------------------------------ claims: body reader, calls and outcomes
\* C36: at most one call of parseBodyFromRequest on a request yields a
\* payload.
C36_OnePayload ==
  Cardinality({c \in Calls : calls[c].pc = "resolved"}) <= 1

IsSettled(call) == call.pc \in {"resolved", "rejected"}

\* What settled a call fixes its outcome.
OutcomeOfFirstEvent ==
  \A c \in Calls :
    /\ IsSettled(calls[c]) <=> calls[c].outcome # NoOutcome
    /\ IsSettled(calls[c]) => calls[c].pc = calls[c].outcome.t
    /\ calls[c].settledBy = "data" => calls[c].outcome = EntityTooLarge
    /\ calls[c].settledBy = "error" => calls[c].outcome = Rejected("StreamError", 0)
    /\ calls[c].settledBy = "end" =>
         /\ calls[c].kind = "string" => calls[c].pc = "resolved"
         /\ calls[c].kind = "buffer" => calls[c].pc = "resolved"

\* A settled call keeps its outcome.
OutcomeKept ==
  \A c \in Calls :
    IsSettled(calls[c]) =>
      /\ calls'[c].pc = calls[c].pc
      /\ calls'[c].outcome = calls[c].outcome
      /\ calls'[c].settledBy = calls[c].settledBy

\* C37: a call has one outcome, that of the first event that settled it:
\* a call failed by the size limit or by a stream error never yields a
\* payload later, and a call that yielded a payload never fails later.
C37_FirstSettles == []OutcomeOfFirstEvent /\ [][OutcomeKept]_vars

\* The text call resolved with the decoded bytes although the JSON line
\* that runs after it failed on them, and the stream has ended.
C37_Witness ==
  /\ calls[1].kind = "string" /\ calls[1].body = << <<255>> >>
  /\ calls[1].pc = "resolved" /\ calls[1].settledBy = "end"
  /\ calls[2].kind = "JSON" /\ calls[2].outcome = Rejected("SyntaxError", 0)
  /\ stream.endEmitted

\* Call c is made in this step.
CallMade(c) == calls[c].pc = "idle" /\ calls'[c].pc # "idle"

\* What the call made in this step is without a content-type header.
WithoutHeader(c) ==
  LET call == [calls'[c] EXCEPT !.pc = "idle", !.attached = FALSE,
                                !.outcome = NoOutcome, !.settledBy = "",
                                !.warned = FALSE]
  IN IF Guards(stream, None) # NoOutcome
     THEN [call EXCEPT !.pc = "rejected", !.outcome = Guards(stream, None),
                       !.settledBy = "guard"]
     ELSE [call EXCEPT !.pc = "pending", !.attached = TRUE]

\* C38 as stated: a call whose kind the content-type header disagrees with
\* starts as it does without the header.
C38_MismatchNeverFails ==
  [][ \A c \in Calls :
        (CallMade(c) /\ headers.contentType # None
           /\ contentTypeDoesNotMatchBody(headers.contentType, calls'[c].kind)) =>
          [calls'[c] EXCEPT !.warned = FALSE] = WithoutHeader(c) ]_vars

\* C38 amended: the same, for every header but the exact
\* 'multipart/form-data', with which the call fails with 415 and reads
\* nothing (with 400 when the stream is no longer readable).
C38_MismatchFailsOnlyMultipart ==
  [][ \A c \in Calls :
        (CallMade(c) /\ headers.contentType # None
           /\ contentTypeDoesNotMatchBody(headers.contentType, calls'[c].kind)) =>
          IF headers.contentType = "multipart/form-data"
          THEN /\ calls'[c].outcome = IF Readable(stream)
                                       THEN UnsupportedMediaType
                                       ELSE AlreadyParsed
               /\ ~calls'[c].attached /\ ~calls'[c].warned
          ELSE /\ [calls'[c] EXCEPT !.warned = FALSE] = WithoutHeader(c)
               /\ calls'[c].attached => calls'[c].warned ]_vars

\* A text call on a request with an upper-case JSON header read the body
\* to its end and yielded it.
C38_Witness ==
  /\ headers.contentType = "Application/JSON"
  /\ calls[1].kind = "string" /\ calls[1].warned
  /\ calls[1].outcome = Resolved("string", <<123, 125>>)
\* ------------------------------------------------------------ claims: multipart parser, captured fields
\* C39: the operationName, query and variables returned with an accepted
\* file are the values the fields had when the file part arrived (the last
\* value of a repeated field, null for a field not seen); a field that
\* arrives after the file part is not in the result.
C39_FieldsBeforeFile ==
  (form.active /\ IsResolved) =>
    << form.outcome.value.operationName, form.outcome.value.query,
       form.outcome.value.variables >> = file.captured
\* ------------------------------------------------------------ claims: GraphQL server, statuses
\* C40: a response whose body has errors is sent with a status of 400 or
\* above: the first 401 or 403 among the statuses of its errors, else the
\* status of the last error that maps to 400 or above, else 500.
C40_StatusForErrors ==
  gqlRes.body.t = "graphql" =>
    LET errors == gqlRes.body.v
        code(i) == handleStatusCode(errors[i], FreshGraphQLResponse)
        auth == {i \in 1..Len(errors) : code(i) \in {401, 403}}
        high == {i \in 1..Len(errors) : code(i) >= 400}
        least(S) == CHOOSE i \in S : \A j \in S : i <= j
        most(S) == CHOOSE i \in S : \A j \in S : i >= j
    IN /\ gqlRes.ended = 1
       /\ gqlRes.statusCode >= 400
       /\ gqlRes.statusCode = IF auth # {} THEN code(least(auth))
                              ELSE IF high # {} THEN code(most(high))
                              ELSE 500

\* A client-side error, a 403 and a 401: the response carries 403.
C40_Witness ==
  /\ gqlRes.body.t = "graphql"
  /\ gqlRes.body.v = << [clientside |-> TRUE, mapped |-> 0],
                        [clientside |-> FALSE, mapped |-> 403],
                        [clientside |-> FALSE, mapped |-> 401] >>
  /\ gqlRes.statusCode = 403

\* ------------------------------------------------------------ C35
\* C35: when the Error Translator throws while it translates a handler
\* failure, the request is not answered with status 200 and its connection
\* is dropped, not left open without a response.
C35_TranslatorThrows ==
  gqlReq.translator = "threw" =>
    /\ gqlRes.statusCode # 200
    /\ gqlRes.socket = "destroyed"

\* ------------------------------------------------------------ C33
\* The listener run for one request alone, from the state f up to its end.
RECURSIVE RunAlone(_, _)
RunAlone(stack, f) ==
  IF f.pc # "awaiting" THEN f
  ELSE RunAlone(stack, SettleInFlight(stack, f, << f >>).flight)

DispatchedAlone(stack, method, url) ==
  RunAlone(stack, StartInFlight(stack, method, url).flight)

IsPrefix(s, t) == Len(s) <= Len(t) /\ s = SubSeq(t, 1, Len(s))

HandlerSentHeadAndFailed(f) ==
  /\ f.failed
  /\ f.invoked # <<>>
  /\ handlerStack[f.invoked[Len(f.invoked)].idx].handler.does = "writes-throws"

\* C34: when a handler has sent the response head itself and then fails,
\* the dispatcher makes no call that sets a header on that response and
\* writes no error body to it.
C34_NoWriteAfterHead ==
  \A r \in Requests :
    HandlerSentHeadAndFailed(flights[r]) =>
      /\ flights[r].res.refused = <<>>
      /\ flights[r].res.ended = 0

====
